---- MODULE Spec2Model ----
(***************************************************************************)
(* Model of the edge-lint core engine: Linter.verify, Linter.verifyAndFix  *)
(* (packages/core/src/linter.ts) and the fix utilities applyFix,           *)
(* applyFixes and getNonOverlappingFixes (packages/core/src/fixer.ts).     *)
(*                                                                         *)
(* Text is a sequence of one-character strings.  The external tokenizer    *)
(* (edge-lexer) is modelled by its interface: every character of the       *)
(* source is one token with a 1-based line and a 0-based column, "n" is a  *)
(* newline token, and the characters "!" and "?" are malformed syntax on   *)
(* which the tokenizer throws, with and without a line/col in the error.   *)
(* Rules are plugins registered with defineRule; four of them are          *)
(* modelled by what their callbacks report.  Message texts, rule options   *)
(* and the filename do not influence control flow and are left out.        *)
(*                                                                         *)
(* Four parts of the engine are modelled on their own inputs as well:      *)
(* RuleContext.report on report descriptors (SpecReport), Linter._traverse *)
(* on token trees (SpecTraverse), Linter._mergeConfig on pairs of configs  *)
(* (SpecConfig), and the location and range functions of SourceCode on     *)
(* texts that hold a token (SpecSource).                                   *)
(***************************************************************************)
EXTENDS Integers, Sequences, FiniteSets, TLC

VARIABLES
    baseRules,      \* Linter._config.rules, set by the constructor
    pc,             \* "idle" | "verified" | "loop" | "after" | "done"
    source,         \* the text passed to verify / verifyAndFix
    callRules,      \* config.rules of the call in progress
    currentSource,  \* verifyAndFix: let currentSource
    messages,       \* verify's return value / verifyAndFix: let messages
    created,        \* ids of the rules whose factory ran in the last verify
    fixed,          \* verifyAndFix: let fixed
    i,              \* verifyAndFix: loop counter
    verifyCalls,    \* number of verify passes of the call in progress
    fixRounds,      \* number of applyFixes calls of the call in progress
    exitBy,         \* how the loop ended: "none" | "break" | "cap"
    result,         \* the LintResult returned by verifyAndFix
    second,         \* the call in progress repeats the previous one on its output
    prevExit,       \* exitBy of the previous call when second
    prevRounds,     \* fixRounds of the previous call when second
    fxSource,       \* fixer functions called directly: source argument
    fxFixes,        \* fixer functions called directly: fixes argument
    fxOut,          \* getNonOverlappingFixes' return value
    fxText,         \* applyFixes' return value
    fxPc,           \* "idle" | "input" | "filtered" | "applied" | "merged"
    fxMerged,       \* mergeFixes' return value
    rcMessages,     \* RuleContext._messages
    rcBefore,       \* RuleContext._messages before the last report call
    rcArg,          \* the descriptor of the last report call
    rcThrew,        \* the last report call threw
    tvTokens,       \* the token tree passed to Linter._traverse
    tvVisitor,      \* the callbacks the visitor defines
    tvTrace,        \* the callbacks invoked by the traversal, in order
    tvPc,           \* "idle" | "traversed"
    cfBase,         \* the config passed to the Linter constructor
    cfCall,         \* the config passed to _mergeConfig
    cfMerged,       \* _mergeConfig's return value
    cfPc,           \* "idle" | "constructed" | "merged"
    scDoc,          \* the text and token a SourceCode was constructed with
    scArg,          \* the argument of the last SourceCode query
    scRes,          \* the return value of the last SourceCode query
    scPc,           \* "idle" | "constructed" | "index" | "loc" | "range"
    rgRef,          \* for each Linter instance, the Map object its _rules field holds
    rgHeap,         \* the contents of every Map object
    rgGot,          \* the Map object the last getRules call returned (0: none)
    rgLast,         \* the last call made on a registry
    rgOps,          \* number of calls made on the registries
    fmArg,          \* the arguments of the last _formatMessage call
    fmOut,          \* the return value of the last _formatMessage call
    hsSeen,         \* the calls made on the instance so far, with their results
    hsBase,         \* the base config the instance was constructed with
    msDoc,          \* mustache-spacing scenario: the template passed to verifyAndFix
    msText,         \* mustache-spacing scenario: currentSource
    msMessages,     \* mustache-spacing scenario: messages
    msRounds,       \* mustache-spacing scenario: rounds that applied fixes
    msPc            \* "idle" | "loop" | "done"

reportVars == <<rcMessages, rcBefore, rcArg, rcThrew>>

traverseVars == <<tvTokens, tvVisitor, tvTrace, tvPc>>

configVars == <<cfBase, cfCall, cfMerged, cfPc>>

sourceVars == <<scDoc, scArg, scRes, scPc>>

registryVars == <<rgRef, rgHeap, rgGot, rgLast, rgOps>>

formatVars == <<fmArg, fmOut>>

historyVars == <<hsSeen, hsBase>>

spacingVars == <<msDoc, msText, msMessages, msRounds, msPc>>

moreVars == <<registryVars, formatVars, historyVars, spacingVars>>

libVars == <<reportVars, traverseVars, configVars, sourceVars, moreVars>>

vars == <<baseRules, pc, source, callRules, currentSource, messages, created,
          fixed, i, verifyCalls, fixRounds, exitBy, result, second, prevExit,
          prevRounds, fxSource, fxFixes, fxOut, fxText, fxPc, fxMerged, libVars>>

linterVars == <<baseRules, pc, source, callRules, currentSource, messages,
                created, fixed, i, verifyCalls, fixRounds, exitBy, result,
                second, prevExit, prevRounds>>

fixerVars == <<fxSource, fxFixes, fxOut, fxText, fxPc, fxMerged>>

----------------------------------------------------------------------------
(* Bounds *)

MaxLen == 3
MaxFixes == 3
MaxFixLen == 2

(* Program constants *)

MAX_ITERATIONS == 10

Chars == {"a", "b", "n", "!", "?"}

Min(x, y) == IF x <= y THEN x ELSE y

RECURSIVE SeqsUpTo(_, _)
SeqsUpTo(S, n) ==
    IF n = 0 THEN {<<>>}
    ELSE LET prev == SeqsUpTo(S, n - 1)
         IN  prev \cup {Append(s, x) : s \in {t \in prev : Len(t) = n - 1}, x \in S}

Sources == SeqsUpTo(Chars, MaxLen)

----------------------------------------------------------------------------
(* Types: Fix, LintMessage, Severity / RuleConfig *)

Fix(start, end, text) == [start |-> start, end |-> end, text |-> text]

\* LintMessage.fix is optional: NoFix stands for an absent (undefined) fix
NoFix == [start |-> -1, end |-> -1, text |-> <<>>]

\* LintMessage.suggestions is optional too: the fixes of the suggestions, <<>>
\* when there is none
LintMessage(ruleId, severity, line, column, fix, suggestions) ==
    [ruleId |-> ruleId, severity |-> severity, line |-> line,
     column |-> column, fix |-> fix, suggestions |-> suggestions]

\* A configured rule value.  form "array" is [severity, ...options]; kind is
\* the JavaScript type of the severity ("undef": missing, as in an empty array).
Bare(kind, s, n) == [form |-> "bare", kind |-> kind, s |-> s, n |-> n]
Arr(kind, s, n) == [form |-> "array", kind |-> kind, s |-> s, n |-> n]

RuleConfigs ==
    { Bare("str", "off", 0), Bare("str", "warn", 0), Bare("str", "error", 0),
      Bare("str", "bogus", 0),
      Bare("num", "", 0), Bare("num", "", 1), Bare("num", "", 2), Bare("num", "", 3),
      Bare("undef", "", 0),
      Arr("str", "error", 0), Arr("num", "", 1), Arr("undef", "", 0) }

\* Rule ids that configurations mention; "ghost" is not registered.
RuleIds == {"a2b", "b2a", "wide", "thrower", "ghost"}

\* Linter._rules after the defineRule calls of the setup
Registry == {"a2b", "b2a", "wide", "thrower"}

Entry(id, cfg) == [id |-> id, cfg |-> cfg]

\* config.rules of a call, as the ordered list of Object.entries: a call
\* configures no rule or one rule, which the merge adds to the base config's
\* rule or puts in its place
CallRuleMaps == {<<>>} \cup {<<Entry(id, c)>> : id \in RuleIds, c \in RuleConfigs}

\* this._config.rules
BaseRuleMaps ==
    { <<>>,
      <<Entry("a2b", Bare("str", "warn", 0))>>,
      <<Entry("thrower", Bare("str", "error", 0))>> }

----------------------------------------------------------------------------
(* Fixer: applyFix, applyFixes, getNonOverlappingFixes *)

\* String.prototype.slice(from, to) for 0 <= from, 0 <= to: indices clamp
Slice(s, from, to) ==
    LET f == Min(from, Len(s))
        t == Min(to, Len(s))
    IN  IF f >= t THEN <<>> ELSE SubSeq(s, f + 1, t)

applyFix(src, fix) ==
    Slice(src, 0, fix.start) \o fix.text \o Slice(src, fix.end, Len(src))

\* comparator of the ascending sort: a.range[0] - b.range[0]
CompareAsc(a, b) == a.start - b.start

\* comparator of the descending sort: b.range[0] - a.range[0]
CompareDesc(a, b) == b.start - a.start

\* Array.prototype.sort is stable: x goes after every y with cmp(y, x) <= 0
RECURSIVE InsertFix(_, _, _)
InsertFix(sorted, x, desc) ==
    IF sorted = <<>> THEN <<x>>
    ELSE LET last == sorted[Len(sorted)]
             c == IF desc THEN CompareDesc(last, x) ELSE CompareAsc(last, x)
         IN  IF c <= 0 THEN Append(sorted, x)
             ELSE Append(InsertFix(SubSeq(sorted, 1, Len(sorted) - 1), x, desc), last)

RECURSIVE SortFixes(_, _)
SortFixes(fixes, desc) ==
    IF fixes = <<>> THEN <<>>
    ELSE InsertFix(SortFixes(SubSeq(fixes, 1, Len(fixes) - 1), desc),
                   fixes[Len(fixes)], desc)

RECURSIVE ApplySorted(_, _)
ApplySorted(src, sorted) ==
    IF sorted = <<>> THEN src
    ELSE ApplySorted(applyFix(src, sorted[1]), Tail(sorted))

applyFixes(src, fixes) ==
    IF Len(fixes) = 0 THEN src
    ELSE ApplySorted(src, SortFixes(fixes, TRUE))

\* the loop of getNonOverlappingFixes; unset: lastEnd is still -Infinity
RECURSIVE KeepFixes(_, _, _, _)
KeepFixes(sorted, acc, unset, lastEnd) ==
    IF sorted = <<>> THEN acc
    ELSE LET fix == sorted[1]
         IN  IF unset \/ fix.start >= lastEnd
             THEN KeepFixes(Tail(sorted), Append(acc, fix), FALSE, fix.end)
             ELSE KeepFixes(Tail(sorted), acc, unset, lastEnd)

\* the ascending sort without the keep-first filter
getSortedFixesUnfiltered(fixes) == SortFixes(fixes, FALSE)

\* a filter that also rejects the first fix of the sorted list
getNonOverlappingFixesAfterFirst(fixes) ==
    IF Len(fixes) = 0 THEN <<>>
    ELSE Tail(KeepFixes(SortFixes(fixes, FALSE), <<>>, TRUE, 0))

getNonOverlappingFixes(fixes) ==
    IF Len(fixes) = 0 THEN <<>>
    ELSE KeepFixes(SortFixes(fixes, FALSE), <<>>, TRUE, 0)

----------------------------------------------------------------------------
(* The external tokenizer, as Linter._tokenize sees it *)

BadAt(src) == {k \in 1..Len(src) : src[k] \in {"!", "?"}}

\* 1-based line and 0-based column of the character at index k (offset k - 1)
LineOf(src, k) == 1 + Cardinality({j \in 1..(k - 1) : src[j] = "n"})

LineStart(src, k) ==
    LET nl == {j \in 1..(k - 1) : src[j] = "n"}
    IN  IF nl = {} THEN 0 ELSE CHOOSE j \in nl : \A m \in nl : m <= j

ColOf(src, k) == k - 1 - LineStart(src, k)

\* tokenizer.parse(): throws on the first malformed character; the error of
\* "!" carries line and col, the error of "?" carries neither
Tokenize(src) ==
    IF BadAt(src) = {}
    THEN [threw |-> FALSE, hasLoc |-> FALSE, line |-> 0, col |-> 0]
    ELSE LET k == CHOOSE j \in BadAt(src) : \A m \in BadAt(src) : j <= m
         IN  IF src[k] = "!"
             THEN [threw |-> TRUE, hasLoc |-> TRUE,
                   line |-> LineOf(src, k), col |-> ColOf(src, k)]
             ELSE [threw |-> TRUE, hasLoc |-> FALSE, line |-> 0, col |-> 0]

----------------------------------------------------------------------------
(* Rules registered with defineRule, by what their visitor reports *)

\* the fix a rule's callback attaches to its report on token k
RuleFix(id, src, k) ==
    CASE id = "a2b" -> Fix(k - 1, k, <<"b">>)
      [] id = "b2a" -> Fix(k - 1, k, <<"a">>)
      [] id = "wide" -> Fix(k - 1, Min(k + 1, Len(src)), <<>>)
      [] OTHER -> NoFix

\* the fixes of the suggestions a rule attaches to its report on token k:
\* suggestions are alternatives the rule does not apply by itself
RuleSuggest(id, src, k) ==
    CASE id = "thrower" -> <<Fix(k - 1, k, <<>>)>>
      [] id = "a2b" -> <<Fix(k - 1, k, <<>>), Fix(k - 1, k - 1, <<"a">>)>>
      [] OTHER -> <<>>

\* the rule's callback reports on token k
RuleReports(id, src, k) ==
    CASE id = "a2b" -> src[k] = "a"
      [] id = "b2a" -> src[k] = "b"
      [] id = "wide" -> src[k] = "a"
      [] id = "thrower" -> src[k] = "a"
      [] OTHER -> FALSE

\* the rule's callback throws on token k
RuleThrows(id, src, k) == id = "thrower" /\ src[k] = "b"

\* RuleContext.report: location from the token, severity of the context
Report(id, severity, src, k) ==
    LintMessage(id, severity, LineOf(src, k), ColOf(src, k), RuleFix(id, src, k),
                RuleSuggest(id, src, k))

\* rule.create(context) and Linter._traverse over the tokens from k on;
\* msgs is context.getMessages() when the traversal ended or threw
RECURSIVE Traverse(_, _, _, _, _)
Traverse(id, severity, src, k, acc) ==
    IF k > Len(src) THEN [threw |-> FALSE, msgs |-> acc]
    ELSE IF RuleThrows(id, src, k) THEN [threw |-> TRUE, msgs |-> acc]
    ELSE IF RuleReports(id, src, k)
         THEN Traverse(id, severity, src, k + 1, Append(acc, Report(id, severity, src, k)))
         ELSE Traverse(id, severity, src, k + 1, acc)

----------------------------------------------------------------------------
(* Linter: configuration *)

HasId(rules, id) == \E j \in 1..Len(rules) : rules[j].id = id

CfgOf(rules, id) == rules[CHOOSE j \in 1..Len(rules) : rules[j].id = id].cfg

Without(rules, id) == SelectSeq(rules, LAMBDA e : e.id # id)

\* a spread in which the entries of the first object win
MergeRulesBaseWins(base, call) ==
    base \o SelectSeq(call, LAMBDA e : ~HasId(base, e.id))

\* rules: { ...this._config.rules, ...config?.rules }
MergeRules(base, call) ==
    [j \in 1..Len(base) |->
        IF HasId(call, base[j].id)
        THEN Entry(base[j].id, CfgOf(call, base[j].id))
        ELSE base[j]]
    \o SelectSeq(call, LAMBDA e : ~HasId(base, e.id))

\* EdgeLintConfig: rules, settings and parserOptions.tags are objects, kept as
\* the ordered lists of their entries; ignorePatterns is an array
Config(rules, settings, tags, ignorePatterns) ==
    [rules |-> rules, settings |-> settings, tags |-> tags,
     ignorePatterns |-> ignorePatterns]

\* options.config ?? {}
EmptyConfig == Config(<<>>, <<>>, <<>>, <<>>)

\* _mergeConfig(config): every object is spread key-wise like the rules, the
\* ignore patterns are concatenated
mergeConfig(base, call) ==
    Config(MergeRules(base.rules, call.rules),
           MergeRules(base.settings, call.settings),
           MergeRules(base.tags, call.tags),
           base.ignorePatterns \o call.ignorePatterns)

NormalizeSeverity(sev) ==
    IF sev.kind = "num" THEN sev.n
    ELSE CASE sev.kind = "str" /\ sev.s = "off" -> 0
           [] sev.kind = "str" /\ sev.s = "warn" -> 1
           [] sev.kind = "str" /\ sev.s = "error" -> 2
           [] OTHER -> 0

\* the severity of [severity, ...options], or of the bare value; the options
\* are not read by the modelled rules
ParseRuleConfig(cfg) ==
    IF cfg.form = "array"
    THEN NormalizeSeverity([kind |-> cfg.kind, s |-> cfg.s, n |-> cfg.n])
    ELSE NormalizeSeverity(cfg)

----------------------------------------------------------------------------
(* Linter.verify *)

\* a comparator that forgets the column
CompareMessagesLineOnly(a, b) == a.line - b.line

\* the comparator of messages.sort
CompareMessages(a, b) ==
    IF a.line # b.line THEN a.line - b.line ELSE a.column - b.column

RECURSIVE InsertMessage(_, _)
InsertMessage(sorted, x) ==
    IF sorted = <<>> THEN <<x>>
    ELSE LET last == sorted[Len(sorted)]
         IN  IF CompareMessages(last, x) <= 0 THEN Append(sorted, x)
             ELSE Append(InsertMessage(SubSeq(sorted, 1, Len(sorted) - 1), x), last)

RECURSIVE SortMessages(_)
SortMessages(msgs) ==
    IF msgs = <<>> THEN <<>>
    ELSE InsertMessage(SortMessages(SubSeq(msgs, 1, Len(msgs) - 1)), msgs[Len(msgs)])

\* the catch block of tokenization
SyntaxError(err) ==
    LintMessage("edge-syntax-error", 2,
                IF err.hasLoc THEN err.line ELSE 1,
                IF err.hasLoc THEN err.col ELSE 0,
                NoFix, <<>>)

\* the catch block of one rule's run
RuleFailure(id) == LintMessage(id, 2, 1, 0, NoFix, <<>>)

\* a catch block that keeps what the rule reported before it threw
RuleOutcomeKeepsPartial(id, run) ==
    IF run.threw THEN Append(run.msgs, RuleFailure(id)) ELSE run.msgs

\* what one rule's try/catch adds to messages
RuleOutcome(id, run) == IF run.threw THEN <<RuleFailure(id)>> ELSE run.msgs

\* a loop that runs every registered rule, whatever its severity
SkippedOnlyIfUnregistered(id, severity) == id \notin Registry

\* if (!rule) continue ... if (severity === 0) continue
Skipped(id, severity) == id \notin Registry \/ severity = 0

\* the loop over Object.entries(mergedConfig.rules)
RECURSIVE RunRules(_, _, _, _)
RunRules(rules, src, acc, made) ==
    IF rules = <<>> THEN [msgs |-> acc, created |-> made]
    ELSE LET id == rules[1].id
             severity == ParseRuleConfig(rules[1].cfg)
         IN  IF Skipped(id, severity)
             THEN RunRules(Tail(rules), src, acc, made)
             ELSE RunRules(Tail(rules), src,
                           acc \o RuleOutcome(id, Traverse(id, severity, src, 1, <<>>)),
                           Append(made, id))

\* a verify whose tokenization catch block does not return
VerifyMergedNoReturn(src, rules) ==
    LET err == Tokenize(src)
        run == RunRules(rules, src, <<>>, <<>>)
    IN  IF err.threw
        THEN [msgs |-> SortMessages(<<SyntaxError(err)>> \o run.msgs),
              created |-> run.created]
        ELSE [msgs |-> SortMessages(run.msgs), created |-> run.created]

\* verify on the merged rule map
VerifyMerged(src, rules) ==
    LET err == Tokenize(src)
    IN  IF err.threw
        THEN [msgs |-> <<SyntaxError(err)>>, created |-> <<>>]
        ELSE LET run == RunRules(rules, src, <<>>, <<>>)
             IN  [msgs |-> SortMessages(run.msgs), created |-> run.created]

Verify(src, base, call) == VerifyMerged(src, MergeRules(base, call))

----------------------------------------------------------------------------
(* Linter.verifyAndFix: the parts of one call *)

HasFix(m) == m.fix # NoFix

\* a collection of fixes that falls back to a message's first suggestion
FixesOrSuggestionsOf(msgs) ==
    LET usable == SelectSeq(msgs, LAMBDA m : HasFix(m) \/ m.suggestions # <<>>)
    IN  [j \in 1..Len(usable) |->
            IF HasFix(usable[j]) THEN usable[j].fix ELSE usable[j].suggestions[1]]

\* messages.filter((m) => m.fix).map((m) => m.fix!)
FixesOf(msgs) ==
    LET fixable == SelectSeq(msgs, HasFix)
    IN  [j \in 1..Len(fixable) |-> fixable[j].fix]

Count(msgs, sev, fixableOnly) ==
    Len(SelectSeq(msgs, LAMBDA m : m.severity = sev /\ (fixableOnly => HasFix(m))))

Undefined == [defined |-> FALSE, text |-> <<>>]

Defined(text) == [defined |-> TRUE, text |-> text]

\* an output that is set whether or not a fix was applied
ResultOutputAlways(wasFixed, text) == Defined(text)

\* output: fixed ? currentSource : undefined
ResultOutput(wasFixed, text) == IF wasFixed THEN Defined(text) ELSE Undefined

\* a result that reports the diagnostics of the last loop round
FinalVerifySkipped(wasFixed, text, msgs, base, call) ==
    [msgs |-> msgs, created |-> created]

\* if (fixed) messages = this.verify(currentSource, ...)
FinalVerify(wasFixed, text, msgs, base, call) ==
    IF wasFixed THEN Verify(text, base, call) ELSE [msgs |-> msgs, created |-> created]

\* a result whose source field is overwritten by the fixed text
LintResultSourceOverwritten(msgs, src, out) ==
    [messages |-> msgs,
     errorCount |-> Count(msgs, 2, FALSE),
     warningCount |-> Count(msgs, 1, FALSE),
     fixableErrorCount |-> Count(msgs, 2, TRUE),
     fixableWarningCount |-> Count(msgs, 1, TRUE),
     source |-> IF out.defined THEN out.text ELSE src,
     output |-> out]

LintResult(msgs, src, out) ==
    [messages |-> msgs,
     errorCount |-> Count(msgs, 2, FALSE),
     warningCount |-> Count(msgs, 1, FALSE),
     fixableErrorCount |-> Count(msgs, 2, TRUE),
     fixableWarningCount |-> Count(msgs, 1, TRUE),
     source |-> src,
     output |-> out]

\* no call has returned a LintResult
NoResult ==
    [messages |-> <<>>, errorCount |-> -1, warningCount |-> -1,
     fixableErrorCount |-> -1, fixableWarningCount |-> -1,
     source |-> <<>>, output |-> Undefined]

\* a loop condition that is off by one
LoopConditionInclusive(n) == n <= MAX_ITERATIONS

\* the for-loop condition
LoopCondition(n) == n < MAX_ITERATIONS

----------------------------------------------------------------------------
(* Arguments of RuleContext.report *)

\* A fix callback by what it does: absent from the descriptor, returns null,
\* throws, returns one Fix ("one") or returns an array of fixes ("list")
Callback(kind, fixes) == [kind |-> kind, fixes |-> fixes]

\* ReportDescriptor: where is "node", "loc" or "none" (neither is given);
\* message is "text" or "none"; messageId is "none" or the id; suggest is
\* "none", "one" (one suggestion with a desc) or "unknownId" (one suggestion
\* whose messageId has no template)
Descriptor(where, message, messageId, fix, suggest) ==
    [where |-> where, message |-> message, messageId |-> messageId,
     fix |-> fix, suggest |-> suggest]

\* no report call has been made
NoReport == Descriptor("unset", "none", "none", Callback("absent", <<>>), "none")

----------------------------------------------------------------------------
(* Arguments and return values of SourceCode *)

\* { line, col }: the location type of the tokenizer and of getIndexFromLoc
Loc(line, col) == [line |-> line, col |-> col]

\* AnyToken with a loc: type, properties.name, properties.selfclosed, loc
LocToken(type, name, selfclosed, start, end) ==
    [type |-> type, name |-> name, selfclosed |-> selfclosed,
     start |-> start, end |-> end]

NoToken == LocToken("none", <<>>, FALSE, Loc(0, 0), Loc(0, 0))

\* the text a SourceCode is constructed with, its token (NoToken: the text
\* holds none) and the literal text of that token
Doc(text, token, literal) == [text |-> text, token |-> token, literal |-> literal]

NoDoc == Doc(<<>>, NoToken, <<>>)

\* the argument of a query: a location or an index
Query(line, col, index) == [line |-> line, col |-> col, index |-> index]

\* the return value of a query: { line, column }, an index or [start, end]
Answer(line, column, index, start, end) ==
    [line |-> line, column |-> column, index |-> index, start |-> start, end |-> end]

----------------------------------------------------------------------------
(* Rule registries: new Linter(), defineRule, getRules, getRule *)

\* two Linter instances of one process; the constructor of instance n
\* allocates the Map object n for its _rules field
Instances == {1, 2}

\* the Map objects: one per instance and one that getRules allocates
Refs == {1, 2, 3}

RegistryIds == {"a2b", "custom"}

\* Rule objects: the built-in one, two custom ones, and "none" for an id
\* that a Map does not hold
RuleObjects == {"builtin", "rule1", "rule2"}

\* new Map(Object.entries(builtinRules))
BuiltinRules == [id \in RegistryIds |-> IF id = "a2b" THEN "builtin" ELSE "none"]

NoRules == [id \in RegistryIds |-> "none"]

RegistryCall(op, inst, id, rule) == [op |-> op, inst |-> inst, id |-> id, rule |-> rule]

NoRegistryCall == RegistryCall("none", 0, "", "none")

----------------------------------------------------------------------------
(* Arguments of RuleContext._formatMessage *)

\* a template is a string; data, when given, holds for the key "k" a value
\* or "undefined" (the key is not set), and holds no other key
FormatCall(template, hasData, data) ==
    [template |-> template, hasData |-> hasData, data |-> data, called |-> TRUE]

NoData == [k |-> "undefined"]

NoFormatCall == [template |-> <<>>, hasData |-> FALSE, data |-> NoData, called |-> FALSE]

----------------------------------------------------------------------------
(* Linter: actions *)

Init ==
    /\ baseRules \in BaseRuleMaps
    /\ pc = "idle"
    /\ source = <<>>
    /\ callRules = <<>>
    /\ currentSource = <<>>
    /\ messages = <<>>
    /\ created = <<>>
    /\ fixed = FALSE
    /\ i = 0
    /\ verifyCalls = 0
    /\ fixRounds = 0
    /\ exitBy = "none"
    /\ result = NoResult
    /\ second = FALSE
    /\ prevExit = "none"
    /\ prevRounds = 0
    /\ fxSource = <<>>
    /\ fxFixes = <<>>
    /\ fxOut = <<>>
    /\ fxText = <<>>
    /\ fxPc = "idle"
    /\ fxMerged = NoFix
    /\ rcMessages = <<>>
    /\ rcBefore = <<>>
    /\ rcArg = NoReport
    /\ rcThrew = FALSE
    /\ tvTokens = <<>>
    /\ tvVisitor = {}
    /\ tvTrace = <<>>
    /\ tvPc = "idle"
    /\ cfBase = EmptyConfig
    /\ cfCall = EmptyConfig
    /\ cfMerged = EmptyConfig
    /\ cfPc = "idle"
    /\ scDoc = NoDoc
    /\ scArg = Query(0, 0, 0)
    /\ scRes = Answer(0, 0, 0, 0, 0)
    /\ scPc = "idle"
    /\ rgRef = [inst \in Instances |-> inst]
    /\ rgHeap = [ref \in Refs |-> IF ref \in Instances THEN BuiltinRules ELSE NoRules]
    /\ rgGot = 0
    /\ rgLast = NoRegistryCall
    /\ rgOps = 0
    /\ fmArg = NoFormatCall
    /\ fmOut = <<>>
    /\ hsSeen = <<>>
    /\ hsBase = baseRules
    /\ msDoc = <<>>
    /\ msText = <<>>
    /\ msMessages = <<>>
    /\ msRounds = 0
    /\ msPc = "idle"

\* A Linter keeps nothing between calls but its registry and base config, so
\* every call is made on an instance in its constructed state.
Returned == pc = "idle"

\* verify(source, filename, config)
VerifyCall(src, call) ==
    /\ LET v == Verify(src, baseRules, call)
       IN  /\ messages' = v.msgs
           /\ created' = v.created
    /\ pc' = "verified"
    /\ source' = src
    /\ callRules' = call
    /\ currentSource' = src
    /\ fixed' = FALSE
    /\ i' = 0
    /\ verifyCalls' = 1
    /\ fixRounds' = 0
    /\ exitBy' = "none"
    /\ result' = NoResult
    /\ second' = FALSE
    /\ prevExit' = "none"
    /\ prevRounds' = 0
    /\ UNCHANGED <<baseRules, fixerVars, libVars>>

\* verifyAndFix(source, filename, config): up to the loop
BeginFix(src, call, again, prev, rounds) ==
    /\ pc' = "loop"
    /\ source' = src
    /\ callRules' = call
    /\ currentSource' = src
    /\ messages' = <<>>
    /\ created' = <<>>
    /\ fixed' = FALSE
    /\ i' = 0
    /\ verifyCalls' = 0
    /\ fixRounds' = 0
    /\ exitBy' = "none"
    /\ result' = NoResult
    /\ second' = again
    /\ prevExit' = prev
    /\ prevRounds' = rounds
    /\ UNCHANGED <<baseRules, fixerVars, libVars>>

VerifyAndFixCall(src, call) ==
    BeginFix(src, call, FALSE, "none", 0)

\* verifyAndFix called again with the same config on the text the previous
\* call left: result.output ?? result.source
VerifyAndFixAgain ==
    /\ pc = "done"
    /\ ~second
    /\ BeginFix(IF result.output.defined THEN result.output.text ELSE result.source,
                callRules, TRUE, exitBy, fixRounds)

\* one iteration of the for loop
Round ==
    /\ pc = "loop"
    /\ LoopCondition(i)
    /\ LET v == Verify(currentSource, baseRules, callRules)
           fixes == getNonOverlappingFixes(FixesOf(v.msgs))
       IN  /\ messages' = v.msgs
           /\ created' = v.created
           /\ verifyCalls' = verifyCalls + 1
           /\ IF Len(FixesOf(v.msgs)) = 0 \/ Len(fixes) = 0
              THEN /\ pc' = "after"
                   /\ exitBy' = "break"
                   /\ UNCHANGED <<fixed, currentSource, i, fixRounds>>
              ELSE /\ fixed' = TRUE
                   /\ currentSource' = applyFixes(currentSource, fixes)
                   /\ fixRounds' = fixRounds + 1
                   /\ i' = i + 1
                   /\ UNCHANGED <<pc, exitBy>>
    /\ UNCHANGED <<baseRules, source, callRules, result, second, prevExit,
                   prevRounds, fixerVars, libVars>>

\* the for loop ends because its condition is false
LoopEnd ==
    /\ pc = "loop"
    /\ ~LoopCondition(i)
    /\ pc' = "after"
    /\ exitBy' = "cap"
    /\ UNCHANGED <<baseRules, source, callRules, currentSource, messages, created,
                   fixed, i, verifyCalls, fixRounds, result, second, prevExit,
                   prevRounds, fixerVars, libVars>>

\* the final verification and the returned LintResult
Finish ==
    /\ pc = "after"
    /\ LET v == FinalVerify(fixed, currentSource, messages, baseRules, callRules)
       IN  /\ messages' = v.msgs
           /\ created' = v.created
           /\ result' = LintResult(v.msgs, source, ResultOutput(fixed, currentSource))
    /\ verifyCalls' = IF fixed THEN verifyCalls + 1 ELSE verifyCalls
    /\ pc' = "done"
    /\ UNCHANGED <<baseRules, source, callRules, currentSource, fixed, i, fixRounds,
                   exitBy, second, prevExit, prevRounds, fixerVars, libVars>>

CallVerify ==
    /\ Returned
    /\ \E src \in Sources, call \in CallRuleMaps : VerifyCall(src, call)

CallVerifyAndFix ==
    /\ Returned
    /\ \E src \in Sources, call \in CallRuleMaps : VerifyAndFixCall(src, call)

Next ==
    \/ CallVerify
    \/ CallVerifyAndFix
    \/ VerifyAndFixAgain
    \/ Round
    \/ LoopEnd
    \/ Finish

Spec == Init /\ [][Next]_vars

TypeOK ==
    /\ pc \in {"idle", "verified", "loop", "after", "done"}
    /\ i \in 0..MAX_ITERATIONS
    /\ fixed \in BOOLEAN
    /\ exitBy \in {"none", "break", "cap"}

----------------------------------------------------------------------------
(* The fixer functions called directly, on any list of fixes *)

\* a text of pairwise distinct characters, so that every splice shows
Canon == <<"a", "b", "n", "!", "?">>

FixSources == {SubSeq(Canon, 1, n) : n \in 0..Min(MaxFixLen, Len(Canon))}

\* Fix invariant of the data model: 0 <= start <= end
Fixes ==
    {Fix(st, en, t) : st \in 0..MaxFixLen, en \in 0..MaxFixLen, t \in {<<>>, <<"x">>}}

ValidFixes == {f \in Fixes : f.start <= f.end}

FixLists == SeqsUpTo(ValidFixes, MaxFixes)

InitFix ==
    /\ Init
    /\ baseRules = <<>>

\* getNonOverlappingFixes(fixes)
GetNonOverlappingCall ==
    /\ fxPc = "idle"
    /\ \E fixes \in FixLists :
          /\ fxFixes' = fixes
          /\ fxOut' = getNonOverlappingFixes(fixes)
    /\ fxPc' = "filtered"
    /\ UNCHANGED <<linterVars, fxSource, fxText, fxMerged, libVars>>

\* applyFixes(source, fixes)
ApplyFixesCall ==
    /\ fxPc = "idle"
    /\ \E src \in FixSources, fixes \in FixLists :
          /\ fxSource' = src
          /\ fxFixes' = fixes
          /\ fxText' = applyFixes(src, fixes)
    /\ fxPc' = "applied"
    /\ UNCHANGED <<linterVars, fxOut, fxMerged, libVars>>

\* text += fix.text for every fix of the sorted list
RECURSIVE JoinTexts(_)
JoinTexts(sorted) ==
    IF sorted = <<>> THEN <<>> ELSE sorted[1].text \o JoinTexts(Tail(sorted))

\* mergeFixes(fixes); NoFix stands for null
mergeFixes(fixes) ==
    IF Len(fixes) = 0 THEN NoFix
    ELSE IF Len(fixes) = 1 THEN fixes[1]
    ELSE LET sorted == SortFixes(fixes, FALSE)
         IN  IF \E j \in 2..Len(sorted) : sorted[j - 1].end > sorted[j].start
             THEN sorted[1]
             ELSE Fix(sorted[1].start, sorted[Len(sorted)].end, JoinTexts(sorted))

\* mergeFixes(fixes), and the source its result is applied to
MergeFixesCall ==
    /\ fxPc = "idle"
    /\ \E src \in FixSources, fixes \in FixLists :
          /\ fxSource' = src
          /\ fxFixes' = fixes
          /\ fxMerged' = mergeFixes(fixes)
    /\ fxPc' = "merged"
    /\ UNCHANGED <<linterVars, fxOut, fxText, libVars>>

NextFix ==
    \/ GetNonOverlappingCall
    \/ ApplyFixesCall
    \/ MergeFixesCall

SpecFix == InitFix /\ [][NextFix]_vars

----------------------------------------------------------------------------
(* Properties *)

Merged == MergeRules(baseRules, callRules)

Enabled(e) == e.id \in Registry /\ ParseRuleConfig(e.cfg) # 0

Ordered(msgs) ==
    \A j \in 1..(Len(msgs) - 1) :
        \/ msgs[j].line < msgs[j + 1].line
        \/ msgs[j].line = msgs[j + 1].line /\ msgs[j].column <= msgs[j + 1].column

\* C1: every list returned by verify is ordered by (line, column) ascending,
\* whatever mix of rule diagnostics and rule-failure diagnostics it holds.
C1_SortInvariant == Ordered(messages) /\ Ordered(result.messages)

\* a verify result holding a rule-failure diagnostic and a rule diagnostic,
\* which the rules produced in another order than the one returned
C1_Witness ==
    /\ pc = "verified"
    /\ \E j, k \in 1..Len(messages) :
          /\ messages[j] = RuleFailure("thrower")
          /\ HasFix(messages[k])
          /\ messages[j].line < messages[k].line
    /\ RunRules(Merged, source, <<>>, <<>>).msgs # messages

\* what is left of a verifyAndFix call: the rounds the loop may still run,
\* then the final verification
Rank ==
    CASE pc = "loop" -> 2 + (10 - i)
      [] pc = "after" -> 1
      [] OTHER -> 0

InCall == pc \in {"loop", "after"}

\* C2: verifyAndFix always terminates: at most 10 rounds apply fixes, verify
\* runs at most 11 times, and every step of a call that has not returned
\* brings it closer to its return (Rank decreases and is never negative).
C2_Terminates ==
    /\ [](fixRounds <= 10 /\ verifyCalls <= 11 /\ Rank >= 0)
    /\ [][InCall => Rank' < Rank]_vars

\* a call that ran into the round cap: 10 rounds of fixes, 11 verify passes
C2_Witness == pc = "done" /\ fixRounds = 10 /\ verifyCalls = 11 /\ exitBy = "cap"

\* C3 as claimed: a verifyAndFix call on the text the previous call left
\* performs one verify pass, applies no fix and returns no output.
C3_Idempotent ==
    (pc = "done" /\ second) =>
        (verifyCalls = 1 /\ fixRounds = 0 /\ ~result.output.defined)

\* C3 amended: the same, when the loop of the previous call ended because no
\* fixable diagnostic remained rather than because of the round cap.
C3_IdempotentAfterConvergence ==
    (pc = "done" /\ second /\ prevExit = "break") =>
        (verifyCalls = 1 /\ fixRounds = 0 /\ ~result.output.defined)

\* a repeated call after a call that applied fixes and converged
C3_Witness ==
    pc = "done" /\ second /\ prevExit = "break" /\ prevRounds >= 1 /\ verifyCalls = 1

NonOverlapping(fixes) ==
    \A j, k \in 1..Len(fixes) :
        fixes[j].start < fixes[k].start => fixes[j].end <= fixes[k].start

\* C4: the fixes getNonOverlappingFixes returns are non-overlapping: of two with
\* different starts the earlier ends at or before the start of the later, for
\* any input list of fixes with start <= end, in any order.
C4_NonOverlap ==
    (fxPc = "filtered" /\ \A j \in 1..Len(fxFixes) : fxFixes[j].start <= fxFixes[j].end)
        => NonOverlapping(fxOut)

\* an input of three fixes out of start order, two of which overlap, of which
\* some fix is dropped and two are kept
C4_Witness ==
    /\ fxPc = "filtered"
    /\ Len(fxFixes) = 3
    /\ fxFixes[1].start > fxFixes[2].start
    /\ ~NonOverlapping(fxFixes)
    /\ Len(fxOut) = 2

\* any two fixes: one ends at or before the offset where the other starts
PairwiseDisjoint(fixes) ==
    \A j, k \in 1..Len(fixes) :
        j # k => (fixes[j].end <= fixes[k].start \/ fixes[k].end <= fixes[j].start)

InText(src, fixes) == \A j \in 1..Len(fixes) : fixes[j].end <= Len(src)

\* index of the fix that comes first in the text: least start, then least end
FirstOf(fixes) ==
    CHOOSE j \in 1..Len(fixes) :
        \A k \in 1..Len(fixes) :
            \/ fixes[j].start < fixes[k].start
            \/ fixes[j].start = fixes[k].start /\ fixes[j].end < fixes[k].end
            \/ fixes[j].start = fixes[k].start /\ fixes[j].end = fixes[k].end /\ j <= k

\* every range replaced by its text, all offsets read against the original
\* text: the text from pos on, with the fixes not yet placed
RECURSIVE Replaced(_, _, _)
Replaced(src, fixes, pos) ==
    IF fixes = <<>> THEN Slice(src, pos, Len(src))
    ELSE LET j == FirstOf(fixes)
             rest == [k \in 1..(Len(fixes) - 1) |-> IF k < j THEN fixes[k] ELSE fixes[k + 1]]
         IN  Slice(src, pos, fixes[j].start) \o fixes[j].text
                 \o Replaced(src, rest, fixes[j].end)

\* C5: for pairwise non-overlapping fixes in any list order, applyFixes returns
\* the original text with every fix's range replaced by its text.
C5_ApplyFixesFaithful ==
    (fxPc = "applied" /\ PairwiseDisjoint(fxFixes) /\ InText(fxSource, fxFixes))
        => fxText = Replaced(fxSource, fxFixes, 0)

\* C6: the diagnostics of a verifyAndFix result are those verify returns for
\* the final text, after convergence and after the round cap alike.
C6_ResultIsFinalVerify ==
    pc = "done" =>
        result.messages =
            Verify(IF result.output.defined THEN result.output.text ELSE result.source,
                   baseRules, callRules).msgs

\* a call that ended by the round cap, whose last loop verify saw another text
C6_Witness ==
    /\ pc = "done"
    /\ exitBy = "cap"
    /\ result.output.defined
    /\ Len(result.messages) >= 1

\* C7 as claimed: an output that is defined differs from the original source,
\* and the source field is the text passed in.
C7_OutputOnlyIfChanged ==
    pc = "done" =>
        /\ result.output.defined => result.output.text # source
        /\ result.source = source

\* C7 amended: the output is defined exactly when at least one round applied
\* fixes, it is then the last snapshot (which can equal the original source),
\* and the source field is the text passed in.
C7_OutputIffFixed ==
    pc = "done" =>
        /\ result.output.defined <=> fixRounds >= 1
        /\ result.output.defined => result.output.text = currentSource
        /\ result.source = source

\* a result whose output is defined and differs from the source
C7_Witness ==
    pc = "done" /\ result.output.defined /\ result.output.text # result.source

\* the line and column the tokenizer's error carries, or the defaults 1 and 0
ErrorLine(src) == IF Tokenize(src).hasLoc THEN Tokenize(src).line ELSE 1
ErrorColumn(src) == IF Tokenize(src).hasLoc THEN Tokenize(src).col ELSE 0

\* C8: when the tokenizer throws, verify returns exactly one diagnostic, of
\* severity 2, at the error's line and column or at 1 and 0; no rule's factory
\* runs; verifyAndFix applies no fix and returns no output.
C8_SyntaxErrorShortCircuits ==
    (pc \in {"verified", "done"} /\ Tokenize(source).threw) =>
        /\ Len(messages) = 1
        /\ messages[1].severity = 2
        /\ messages[1].line = ErrorLine(source)
        /\ messages[1].column = ErrorColumn(source)
        /\ created = <<>>
        /\ \A j \in 1..Len(messages) : messages[j].ruleId \notin RuleIds
        /\ pc = "done" =>
              /\ fixRounds = 0
              /\ ~result.output.defined
              /\ result.messages = messages

\* a tokenizer error without location, on a source in which a rule configured
\* as an error would report
C8_Witness ==
    /\ pc = "verified"
    /\ Tokenize(source).threw
    /\ ~Tokenize(source).hasLoc
    /\ \E j \in 1..Len(Merged) :
          /\ Enabled(Merged[j])
          /\ ParseRuleConfig(Merged[j].cfg) = 2
          /\ \E k \in 1..Len(source) : RuleReports(Merged[j].id, source, k)

OfRule(msgs, id) == SelectSeq(msgs, LAMBDA m : m.ruleId = id)

NotOfRule(msgs, id) == SelectSeq(msgs, LAMBDA m : m.ruleId # id)

Threw(e, src) == Traverse(e.id, ParseRuleConfig(e.cfg), src, 1, <<>>).threw

C10_SeverityNormalized ==
    pc = "verified" =>
        /\ \A j \in 1..Len(Merged) :
              LET c == Merged[j].cfg
                  expected ==
                      CASE c.kind = "str" /\ c.s = "warn" -> 1
                        [] c.kind = "str" /\ c.s = "error" -> 2
                        [] c.kind = "num" /\ c.n \in {1, 2} -> c.n
                        [] OTHER -> 0
              IN  ParseRuleConfig(c) = expected
        /\ \A j \in 1..Len(messages) : messages[j].severity \in {1, 2}

----------------------------------------------------------------------------
(* Properties of rule selection and of suggestions *)

Times(ids, id) == Len(SelectSeq(ids, LAMBDA x : x = id))

SetToOff(cfg) ==
    /\ cfg.form = "bare"
    /\ \/ cfg.kind = "str" /\ cfg.s = "off"
       \/ cfg.kind = "num" /\ cfg.n = 0

\* C11: in a verify call on a source that tokenizes, a rule's factory runs
\* exactly once if its id is in the merged rule map, is registered and has a
\* non-zero normalized severity, and not at all otherwise; a rule set to "off"
\* or 0 and an unregistered rule id leave no diagnostic, not even an error.
C11_FactoryOncePerEnabledRule ==
    (pc = "verified" /\ ~Tokenize(source).threw) =>
        \A id \in RuleIds :
            /\ Times(created, id) =
                   IF /\ HasId(Merged, id)
                      /\ id \in Registry
                      /\ ParseRuleConfig(CfgOf(Merged, id)) # 0
                   THEN 1 ELSE 0
            /\ (HasId(Merged, id) /\ (id \notin Registry \/ SetToOff(CfgOf(Merged, id))))
                   => \A j \in 1..Len(messages) : messages[j].ruleId # id

\* a verify call whose merged map holds a rule that ran and reported and a
\* rule set to "off" or 0 whose callback would have reported on the source
C11_Witness ==
    /\ pc = "verified"
    /\ ~Tokenize(source).threw
    /\ Len(Merged) = 2
    /\ Len(created) = 1
    /\ \E j \in 1..Len(messages) : messages[j].ruleId = created[1]
    /\ \E j \in 1..Len(Merged) :
          /\ SetToOff(Merged[j].cfg)
          /\ Merged[j].id \in Registry
          /\ \E k \in 1..Len(source) : RuleReports(Merged[j].id, source, k)

Strip(msgs) == [j \in 1..Len(msgs) |-> [msgs[j] EXCEPT !.suggestions = <<>>]]

\* the text a verifyAndFix run ends with when every diagnostic of every pass
\* has its suggestions removed
RECURSIVE TextWithoutSuggestions(_, _)
TextWithoutSuggestions(text, n) ==
    IF n >= MAX_ITERATIONS THEN text
    ELSE LET msgs == Strip(Verify(text, baseRules, callRules).msgs)
             fixes == getNonOverlappingFixes(FixesOf(msgs))
         IN  IF Len(fixes) = 0 THEN text
             ELSE TextWithoutSuggestions(applyFixes(text, fixes), n + 1)

\* C15: verifyAndFix never applies a suggestion: the text a run ends with, and
\* its output, are those of the run whose diagnostics differ only in having no
\* suggestions.
C15_SuggestionsNeverApplied ==
    pc = "done" =>
        LET text == TextWithoutSuggestions(source, 0)
        IN  /\ currentSource = text
            /\ result.output.defined => result.output.text = text
            /\ result.output.defined = (fixRounds > 0)

\* a run that applied a fix and returns a diagnostic whose suggestions would
\* change the text it returns
C15_Witness ==
    /\ pc = "done"
    /\ result.output.defined
    /\ \E j \in 1..Len(result.messages) :
          /\ result.messages[j].suggestions # <<>>
          /\ applyFix(result.output.text, result.messages[j].suggestions[1])
                 # result.output.text

----------------------------------------------------------------------------
(* RuleContext.report *)

MaxReports == 2

\* the context a rule is created with: its id, its severity, the templates
\* of rule.meta.messages and the text of its SourceCode
RcRuleId == "a2b"

RcSeverity == 1

MessageTemplates == {"known"}

RcText == SubSeq(Canon, 1, Min(MaxFixLen, Len(Canon)))

FixCallbacks ==
    { Callback("absent", <<>>), Callback("null", <<>>), Callback("throws", <<>>),
      Callback("one", <<Fix(0, 1, <<"x">>)>>) }

AllDescriptors ==
    { Descriptor(w, m, id, f, s) :
        w \in {"none", "node", "loc"}, m \in {"none", "text"},
        id \in {"none", "known", "unknown"}, f \in FixCallbacks,
        s \in {"none", "one", "unknownId"} }

\* the location and the message of the descriptor pass report's checks
WellFormed(d) ==
    /\ d.where # "none"
    /\ IF d.messageId # "none" THEN d.messageId \in MessageTemplates
       ELSE d.message # "none"

\* the descriptors of the calls that are explored: every well-formed one, and
\* the ill-formed ones with one fix callback
Descriptors ==
    { d \in AllDescriptors :
        WellFormed(d) \/ (d.fix.kind = "one" /\ d.suggest = "none") }

\* the descriptors whose fix callback returns an array
ListDescriptors ==
    { Descriptor("node", "text", "none", Callback("list", fixes), "none") :
        fixes \in FixLists }

\* Resolve location: loc, else the node's location, else throw
ResolveLocation(d) ==
    CASE d.where = "loc" -> [ok |-> TRUE, line |-> 2, column |-> 1]
      [] d.where = "node" -> [ok |-> TRUE, line |-> 1, column |-> 0]
      [] OTHER -> [ok |-> FALSE, line |-> 0, column |-> 0]

\* a message resolution that falls back to the id when no template is found
ResolveMessageFallsBack(d) == d.messageId # "none" \/ d.message # "none"

\* Resolve message: TRUE when it does not throw
ResolveMessage(d) ==
    IF d.messageId # "none" THEN d.messageId \in MessageTemplates
    ELSE d.message # "none"

\* the loop of _mergeFixesForMessage over the sorted fixes
RECURSIVE MergeText(_, _, _, _)
MergeText(sorted, text, merged, lastEnd) ==
    IF sorted = <<>> THEN merged
    ELSE LET fix == sorted[1]
             gap == IF fix.start > lastEnd THEN Slice(text, lastEnd, fix.start)
                    ELSE <<>>
         IN  MergeText(Tail(sorted), text, merged \o gap \o fix.text, fix.end)

mergeFixesForMessage(fixes, text) ==
    IF Len(fixes) = 0 THEN NoFix
    ELSE IF Len(fixes) = 1 THEN fixes[1]
    ELSE LET sorted == SortFixes(fixes, FALSE)
         IN  Fix(sorted[1].start, sorted[Len(sorted)].end,
                 MergeText(sorted, text, <<>>, sorted[1].start))

\* the body of the try block: the fix of the diagnostic from the fixes the
\* callback returned
FixFromResult(fixes, text) ==
    LET nonOverlapping == getNonOverlappingFixes(fixes)
    IN  IF Len(nonOverlapping) = 1 THEN nonOverlapping[1]
        ELSE IF Len(nonOverlapping) > 1 THEN mergeFixesForMessage(nonOverlapping, text)
        ELSE NoFix

\* a fix step without the catch block
ProcessFixUncaught(cb, text) ==
    [threw |-> cb.kind = "throws",
     fix |-> IF cb.kind \in {"one", "list"} THEN FixFromResult(cb.fixes, text)
             ELSE NoFix]

\* Process fix: try { ... } catch { /* Ignore fix errors */ }
ProcessFix(cb, text) ==
    [threw |-> FALSE,
     fix |-> IF cb.kind \in {"one", "list"} THEN FixFromResult(cb.fixes, text)
             ELSE NoFix]

\* _processSuggestions: an unknown messageId throws outside any try block
ProcessSuggestions(suggest, text) ==
    [threw |-> suggest = "unknownId",
     suggestions |-> IF suggest = "one"
                     THEN <<FixFromResult(<<Fix(0, 0, <<"x">>)>>, text)>>
                     ELSE <<>>]

\* report(descriptor) on a context holding msgs
report(msgs, d, text) ==
    LET location == ResolveLocation(d)
        fix == ProcessFix(d.fix, text)
        suggest == ProcessSuggestions(d.suggest, text)
    IN  IF ~location.ok \/ ~ResolveMessage(d) \/ fix.threw \/ suggest.threw
        THEN [threw |-> TRUE, msgs |-> msgs]
        ELSE [threw |-> FALSE,
              msgs |-> Append(msgs,
                              LintMessage(RcRuleId, RcSeverity, location.line,
                                          location.column, fix.fix,
                                          suggest.suggestions))]

ReportStep(d) ==
    /\ LET r == report(rcMessages, d, RcText)
       IN  /\ rcMessages' = r.msgs
           /\ rcThrew' = r.threw
    /\ rcBefore' = rcMessages
    /\ rcArg' = d
    /\ UNCHANGED <<linterVars, fixerVars, moreVars, traverseVars, configVars, sourceVars>>

\* context.report(descriptor) from a rule's callback; an exception of report
\* ends the rule's run
ReportCall ==
    /\ ~rcThrew
    /\ Len(rcMessages) < MaxReports
    /\ rcArg.fix.kind # "list"
    /\ \E d \in Descriptors : ReportStep(d)

\* context.report(descriptor) with a fix callback that returns an array, as
\* the first report of a rule's run
ReportFixesCall ==
    /\ rcArg = NoReport
    /\ \E d \in ListDescriptors : ReportStep(d)

NextReport ==
    \/ ReportCall
    \/ ReportFixesCall

SpecReport == InitFix /\ [][NextReport]_vars

\* C12 as claimed: when a fix callback returns several pairwise-disjoint fixes
\* (each ends at or before the next one starts), the diagnostic carries one fix
\* from the earliest start to the latest end, and applying it to the source
\* gives the text that results from applying every individual fix.
C12_MergedFixFaithful ==
    ( /\ rcArg # NoReport
      /\ rcArg.fix.kind = "list"
      /\ Len(rcArg.fix.fixes) >= 2
      /\ PairwiseDisjoint(rcArg.fix.fixes)
      /\ InText(RcText, rcArg.fix.fixes) )
    => LET fixes == rcArg.fix.fixes
           m == rcMessages[Len(rcMessages)]
       IN  /\ ~rcThrew
           /\ Len(rcMessages) = Len(rcBefore) + 1
           /\ HasFix(m)
           /\ \A j \in 1..Len(fixes) :
                 m.fix.start <= fixes[j].start /\ fixes[j].end <= m.fix.end
           /\ \E j \in 1..Len(fixes) : m.fix.start = fixes[j].start
           /\ \E j \in 1..Len(fixes) : m.fix.end = fixes[j].end
           /\ applyFix(RcText, m.fix) = Replaced(RcText, fixes, 0)

\* the descriptor of the last report call has a valid location, a valid
\* message and valid suggestions
ValidDescriptor(d) == WellFormed(d) /\ d.suggest # "unknownId"

\* C13: when the fix callback of an otherwise valid report throws, report does
\* not throw, the diagnostic is recorded without a fix, and the diagnostics
\* reported before are unchanged.
C13_FixErrorSwallowed ==
    (rcArg # NoReport /\ rcArg.fix.kind = "throws" /\ ValidDescriptor(rcArg))
    => /\ ~rcThrew
       /\ Len(rcMessages) = Len(rcBefore) + 1
       /\ SubSeq(rcMessages, 1, Len(rcBefore)) = rcBefore
       /\ ~HasFix(rcMessages[Len(rcMessages)])
       /\ rcMessages[Len(rcMessages)].ruleId = RcRuleId
       /\ rcMessages[Len(rcMessages)].line = ResolveLocation(rcArg).line

\* a report whose fix callback threw, after a report that recorded a fix
C13_Witness ==
    /\ rcArg # NoReport
    /\ rcArg.fix.kind = "throws"
    /\ ValidDescriptor(rcArg)
    /\ Len(rcBefore) = 1
    /\ HasFix(rcBefore[1])
    /\ Len(rcMessages) = 2

\* C14: report throws when the descriptor has neither node nor loc, when it has
\* neither message nor messageId, and when its messageId is absent from the
\* rule's templates; no diagnostic is added in any of these cases.
C14_InvalidReportThrows ==
    ( /\ rcArg # NoReport
      /\ \/ rcArg.where = "none"
         \/ rcArg.message = "none" /\ rcArg.messageId = "none"
         \/ rcArg.messageId \notin (MessageTemplates \cup {"none"}) )
    => rcThrew /\ rcMessages = rcBefore

\* a report with a location and an unknown message id, made after a report
\* that recorded a diagnostic
C14_Witness ==
    /\ rcArg # NoReport
    /\ rcArg.where # "none"
    /\ rcArg.messageId = "unknown"
    /\ rcThrew
    /\ Len(rcBefore) = 1
    /\ rcMessages = rcBefore

----------------------------------------------------------------------------
(* Linter._traverse over a token tree *)

MaxTokens == 4

\* a token of the tokenizer: its type and its children (<<>> when it has none)
Token(type, children) == [type |-> type, children |-> children]

LeafTypes == {"mustache", "raw", "comment"}

BlockTypes == {"tag", "e__tag"}

\* the token lists of exactly n tokens, children included
RECURSIVE TokenLists(_)
TokenLists(n) ==
    IF n = 0 THEN {<<>>}
    ELSE UNION { { <<tok>> \o rest :
                     tok \in {Token(t, <<>>) : t \in IF k = 1 THEN LeafTypes ELSE {}}
                             \cup {Token(t, kids) : t \in BlockTypes,
                                                    kids \in TokenLists(k - 1)},
                     rest \in TokenLists(n - k) } : k \in 1..n }

TokenTrees == UNION {TokenLists(n) : n \in 0..MaxTokens}

\* TokenVisitor: the names of the callbacks a visitor defines
AllCallbacks ==
    {"Program", "Program:exit", "Tag", "Tag:exit", "EscapedTag", "Mustache",
     "SafeMustache", "EscapedMustache", "EscapedSafeMustache", "Raw", "Comment",
     "NewLine"}

Visitors ==
    { AllCallbacks, {"Tag", "Tag:exit"}, AllCallbacks \ {"Program", "Tag:exit"} }

\* visitor.X?.(token): the token is named by its path of child indices
Invoke(visitor, cb, path) ==
    IF cb \in visitor THEN <<[cb |-> cb, path |-> path]>> ELSE <<>>

\* a case 'tag' that calls Tag:exit before it visits the children
TagCaseExitsEarly(enter, inner, exit) == enter \o exit \o inner

\* case 'tag': Tag, the children, Tag:exit
TagCase(enter, inner, exit) == enter \o inner \o exit

RECURSIVE VisitTokens(_, _, _, _)
RECURSIVE VisitToken(_, _, _)
VisitToken(token, path, visitor) ==
    CASE token.type = "tag" ->
             TagCase(Invoke(visitor, "Tag", path),
                     VisitTokens(token.children, path, 1, visitor),
                     Invoke(visitor, "Tag:exit", path))
      [] token.type = "e__tag" -> Invoke(visitor, "EscapedTag", path)
      [] token.type = "mustache" -> Invoke(visitor, "Mustache", path)
      [] token.type = "s__mustache" -> Invoke(visitor, "SafeMustache", path)
      [] token.type = "e__mustache" -> Invoke(visitor, "EscapedMustache", path)
      [] token.type = "es__mustache" -> Invoke(visitor, "EscapedSafeMustache", path)
      [] token.type = "raw" -> Invoke(visitor, "Raw", path)
      [] token.type = "comment" -> Invoke(visitor, "Comment", path)
      [] token.type = "newline" -> Invoke(visitor, "NewLine", path)
      [] OTHER -> <<>>

\* for (const token of tokens) this._visitToken(token, visitor), from token j
VisitTokens(tokens, prefix, j, visitor) ==
    IF j > Len(tokens) THEN <<>>
    ELSE VisitToken(tokens[j], Append(prefix, j), visitor)
             \o VisitTokens(tokens, prefix, j + 1, visitor)

\* _traverse(tokens, visitor): the callbacks it invokes, in order
TraverseTree(tokens, visitor) ==
    Invoke(visitor, "Program", <<>>)
        \o VisitTokens(tokens, <<>>, 1, visitor)
        \o Invoke(visitor, "Program:exit", <<>>)

TraverseCall ==
    /\ tvPc = "idle"
    /\ \E tokens \in TokenTrees, visitor \in Visitors :
          /\ tvTokens' = tokens
          /\ tvVisitor' = visitor
          /\ tvTrace' = TraverseTree(tokens, visitor)
    /\ tvPc' = "traversed"
    /\ UNCHANGED <<linterVars, fixerVars, moreVars, reportVars, configVars, sourceVars>>

NextTraverse == TraverseCall

SpecTraverse == InitFix /\ [][NextTraverse]_vars

\* the paths of all tokens of a list, children included
RECURSIVE PathsOf(_, _)
PathsOf(tokens, prefix) ==
    UNION { {Append(prefix, j)} \cup PathsOf(tokens[j].children, Append(prefix, j)) :
              j \in 1..Len(tokens) }

RECURSIVE TokenAt(_, _)
TokenAt(tokens, path) ==
    IF Len(path) = 1 THEN tokens[path[1]]
    ELSE TokenAt(tokens[path[1]].children, Tail(path))

Ancestor(p, q) == Len(p) < Len(q) /\ SubSeq(q, 1, Len(p)) = p

\* the traversal descends to the token: all its ancestors are tags
Visited(tokens, path) ==
    \A n \in 1..(Len(path) - 1) : TokenAt(tokens, SubSeq(path, 1, n)).type = "tag"

At(cb, path) == {j \in 1..Len(tvTrace) : tvTrace[j] = [cb |-> cb, path |-> path]}

Inside(path) == {j \in 1..Len(tvTrace) : Ancestor(path, tvTrace[j].path)}

\* C16: Program is the first callback of a traversal and Program:exit the
\* last; for every tag token the traversal reaches, Tag fires once before the
\* callbacks of all its descendants, Tag:exit fires once after the last of
\* them, and no callback of another token falls between the two: enter and
\* exit callbacks are well nested.
C16_TraversalBracketed ==
    tvPc = "traversed" =>
        /\ At("Program", <<>>) = IF "Program" \in tvVisitor THEN {1} ELSE {}
        /\ At("Program:exit", <<>>) =
               IF "Program:exit" \in tvVisitor THEN {Len(tvTrace)} ELSE {}
        /\ \A p \in PathsOf(tvTokens, <<>>) :
              (TokenAt(tvTokens, p).type = "tag" /\ Visited(tvTokens, p)) =>
                  LET enter == At("Tag", p)
                      exit == At("Tag:exit", p)
                      own == enter \cup exit \cup Inside(p)
                  IN  /\ Cardinality(enter) = IF "Tag" \in tvVisitor THEN 1 ELSE 0
                      /\ Cardinality(exit) = IF "Tag:exit" \in tvVisitor THEN 1 ELSE 0
                      /\ \A e \in enter, j \in Inside(p) \cup exit : e < j
                      /\ \A x \in exit, j \in Inside(p) : j < x
                      /\ \A j, k \in own, n \in 1..Len(tvTrace) :
                            (j < n /\ n < k) => n \in own

\* a traversal with every callback defined, over a tag that holds a tag that
\* holds a token, followed by a sibling
C16_Witness ==
    /\ tvPc = "traversed"
    /\ tvVisitor = AllCallbacks
    /\ Len(tvTokens) = 2
    /\ tvTokens[1].type = "tag"
    /\ Len(tvTokens[1].children) = 1
    /\ tvTokens[1].children[1].type = "tag"
    /\ Len(tvTokens[1].children[1].children) = 1
    /\ Len(tvTrace) = 8

----------------------------------------------------------------------------
(* Linter._mergeConfig on a base config and a per-call config *)

MaxKeys == 1

\* the objects of up to n entries with keys of ks and values of vs
RECURSIVE ObjectsUpTo(_, _, _)
ObjectsUpTo(ks, vs, n) ==
    IF n = 0 THEN {<<>>}
    ELSE LET prev == ObjectsUpTo(ks, vs, n - 1)
         IN  prev \cup { Append(o, Entry(k, v)) :
                           o \in {t \in prev : Len(t) = n - 1},
                           k \in ks, v \in vs }

Objects(ks, vs, n) ==
    {o \in ObjectsUpTo(ks, vs, n) : \A j, k \in 1..Len(o) : j # k => o[j].id # o[k].id}

Configs ==
    { Config(r, s, t, p) :
        r \in Objects({"a2b", "b2a"}, {Bare("str", "warn", 0), Bare("str", "off", 0)},
                      MaxKeys),
        s \in Objects({"indent"}, {"2", "4"}, 1),
        t \in Objects({"card"}, {"block", "inline"}, 1),
        p \in {<<>>, <<"dist">>, <<"vendor">>} }

\* new Linter({ config })
NewLinter ==
    /\ cfPc = "idle"
    /\ \E base \in Configs : cfBase' = base
    /\ cfPc' = "constructed"
    /\ UNCHANGED <<cfCall, cfMerged>>
    /\ UNCHANGED <<linterVars, fixerVars, moreVars, reportVars, traverseVars, sourceVars>>

\* this._mergeConfig(config), the first statement of verify
MergeConfigCall ==
    /\ cfPc = "constructed"
    /\ \E call \in Configs :
          /\ cfCall' = call
          /\ cfMerged' = mergeConfig(cfBase, call)
    /\ cfPc' = "merged"
    /\ UNCHANGED cfBase
    /\ UNCHANGED <<linterVars, fixerVars, moreVars, reportVars, traverseVars, sourceVars>>

NextConfig ==
    \/ NewLinter
    \/ MergeConfigCall

SpecConfig == InitFix /\ [][NextConfig]_vars

IdsOf(obj) == {obj[j].id : j \in 1..Len(obj)}

\* C17: the merged configuration holds, for each rule id, setting key and tag
\* name, the per-call entry when the per-call config defines it and the base
\* entry when only the base defines it, and nothing else; its ignore patterns
\* are the base list followed by the per-call list.
C17_MergeKeyWise ==
    cfPc = "merged" =>
        /\ \A f \in {"rules", "settings", "tags"} :
              LET b == cfBase[f]
                  c == cfCall[f]
                  m == cfMerged[f]
              IN  /\ IdsOf(m) = IdsOf(b) \cup IdsOf(c)
                  /\ Len(m) = Cardinality(IdsOf(m))
                  /\ \A id \in IdsOf(m) :
                        CfgOf(m, id) = IF HasId(c, id) THEN CfgOf(c, id) ELSE CfgOf(b, id)
        /\ cfMerged.ignorePatterns = cfBase.ignorePatterns \o cfCall.ignorePatterns

\* a merge in which a rule is defined by both configs with different values,
\* a setting by the base only, a tag by the call only, and both have patterns
C17_Witness ==
    /\ cfPc = "merged"
    /\ \E id \in IdsOf(cfBase.rules) \cap IdsOf(cfCall.rules) :
          CfgOf(cfBase.rules, id) # CfgOf(cfCall.rules, id)
    /\ cfBase.settings # <<>> /\ cfCall.settings = <<>>
    /\ cfBase.tags = <<>> /\ cfCall.tags # <<>>
    /\ cfBase.ignorePatterns # <<>>
    /\ cfCall.ignorePatterns # <<>>
    /\ cfBase.ignorePatterns # cfCall.ignorePatterns

----------------------------------------------------------------------------
(* SourceCode: getIndexFromLoc, getLocFromIndex, getRange *)

MaxPrefix == 2

\* "n" is the line feed and "r" the carriage return
TextChars == {"a", "n", "r"}

\* the positions the tokenizer reports: the 1-based line and the 0-based
\* column of the character at a 0-based offset
LexerLoc(text, offset) ==
    LET feeds == {j \in 1..offset : text[j] = "n"}
        last == IF feeds = {} THEN 0 ELSE CHOOSE j \in feeds : \A k \in feeds : k <= j
    IN  Loc(1 + Cardinality(feeds), offset - last)

\* the delimiters of a token in the template syntax
Opening(type, name, selfclosed) ==
    CASE type = "mustache" -> <<"{", "{">>
      [] type = "s__mustache" -> <<"{", "{", "{">>
      [] type = "e__mustache" -> <<"@", "{", "{">>
      [] type = "es__mustache" -> <<"@", "{", "{", "{">>
      [] type = "tag" /\ ~selfclosed -> <<"@">> \o name \o <<"(">>
      [] type = "tag" /\ selfclosed -> <<"@", "!">> \o name \o <<"(">>
      [] type = "e__tag" -> <<"@", "@">> \o name \o <<"(">>

Closing(type) ==
    CASE type = "mustache" -> <<"}", "}">>
      [] type = "s__mustache" -> <<"}", "}", "}">>
      [] type = "e__mustache" -> <<"}", "}">>
      [] type = "es__mustache" -> <<"}", "}", "}">>
      [] OTHER -> <<")">>

TokenKinds ==
    { <<"mustache", <<>>, FALSE>>, <<"s__mustache", <<>>, FALSE>>,
      <<"e__mustache", <<>>, FALSE>>, <<"es__mustache", <<>>, FALSE>>,
      <<"tag", <<"i", "f">>, FALSE>>, <<"tag", <<"c">>, FALSE>>,
      <<"tag", <<"c">>, TRUE>>, <<"e__tag", <<"i", "f">>, FALSE>>,
      <<"e__tag", <<"c">>, FALSE>> }

\* a text that holds one token after a prefix: the token's loc spans from
\* just after its opening delimiter to just after its closing delimiter
TokenDoc(prefix, kind, body, suffix) ==
    LET open == Opening(kind[1], kind[2], kind[3])
        literal == open \o body \o Closing(kind[1])
        text == prefix \o literal \o suffix
    IN  Doc(text,
            LocToken(kind[1], kind[2], kind[3],
                     LexerLoc(text, Len(prefix) + Len(open)),
                     LexerLoc(text, Len(prefix) + Len(literal))),
            literal)

Docs ==
    {Doc(text, NoToken, <<>>) : text \in SeqsUpTo(TextChars, MaxLen)}
    \cup { TokenDoc(prefix, kind, body, suffix) :
             prefix \in SeqsUpTo({"a", "n"}, MaxPrefix), kind \in TokenKinds,
             body \in {<<"x">>, <<"x", "n", "x">>}, suffix \in {<<>>, <<"a">>} }

\* _computeLineStartIndices: 0 and the index after every line feed
computeLineStartIndices(text) ==
    <<0>> \o SelectSeq([j \in 1..Len(text) |-> j], LAMBDA j : text[j] = "n")

getIndexFromLoc(text, line, col) ==
    LET lineStartIndices == computeLineStartIndices(text)
        lineIndex == line - 1
    IN  IF lineIndex < 0 THEN col
        ELSE IF lineIndex >= Len(lineStartIndices) THEN Len(text)
        ELSE lineStartIndices[lineIndex + 1] + col

\* the loop of getLocFromIndex, from the line of index n down
RECURSIVE LocFromIndexLoop(_, _, _)
LocFromIndexLoop(lineStartIndices, index, n) ==
    IF n < 0 THEN [line |-> 1, column |-> index]
    ELSE IF index >= lineStartIndices[n + 1]
         THEN [line |-> n + 1, column |-> index - lineStartIndices[n + 1]]
         ELSE LocFromIndexLoop(lineStartIndices, index, n - 1)

\* a scan that stops at the first line start that is not after the index
getLocFromIndexFirstLine(text, index) ==
    LocFromIndexLoop(computeLineStartIndices(text), index, 0)

getLocFromIndex(text, index) ==
    LET lineStartIndices == computeLineStartIndices(text)
    IN  LocFromIndexLoop(lineStartIndices, index, Len(lineStartIndices) - 1)

\* the delimiter adjustment of getRange for a token with a loc
StartAdjustment(token) ==
    CASE token.type \in {"mustache", "e__mustache"} -> 2
      [] token.type \in {"s__mustache", "es__mustache"} -> 3
      [] token.type \in {"tag", "e__tag"} -> Len(token.name) + 2
      [] OTHER -> 0

\* getRange(token) for a token with a loc
getRange(text, token) ==
    [start |-> getIndexFromLoc(text, token.start.line, token.start.col)
                   - StartAdjustment(token),
     end |-> getIndexFromLoc(text, token.end.line, token.end.col)]

\* new SourceCode({ text, tokens })
NewSourceCode ==
    /\ scPc = "idle"
    /\ \E doc \in Docs : scDoc' = doc
    /\ scPc' = "constructed"
    /\ UNCHANGED <<scArg, scRes>>
    /\ UNCHANGED <<linterVars, fixerVars, moreVars, reportVars, traverseVars, configVars>>

\* getIndexFromLoc({ line, col })
GetIndexFromLocCall ==
    /\ scPc = "constructed"
    /\ \E line \in 0..(Len(computeLineStartIndices(scDoc.text)) + 1),
          col \in 0..(Len(scDoc.text) + 1) :
          /\ scArg' = Query(line, col, 0)
          /\ scRes' = Answer(0, 0, getIndexFromLoc(scDoc.text, line, col), 0, 0)
    /\ scPc' = "index"
    /\ UNCHANGED scDoc
    /\ UNCHANGED <<linterVars, fixerVars, moreVars, reportVars, traverseVars, configVars>>

\* getLocFromIndex(index)
GetLocFromIndexCall ==
    /\ scPc = "constructed"
    /\ \E index \in 0..(Len(scDoc.text) + 1) :
          /\ scArg' = Query(0, 0, index)
          /\ LET loc == getLocFromIndex(scDoc.text, index)
             IN  scRes' = Answer(loc.line, loc.column, 0, 0, 0)
    /\ scPc' = "loc"
    /\ UNCHANGED scDoc
    /\ UNCHANGED <<linterVars, fixerVars, moreVars, reportVars, traverseVars, configVars>>

\* getRange(token) for the token of the text
GetRangeCall ==
    /\ scPc = "constructed"
    /\ scDoc.token # NoToken
    /\ LET range == getRange(scDoc.text, scDoc.token)
       IN  scRes' = Answer(0, 0, 0, range.start, range.end)
    /\ scPc' = "range"
    /\ UNCHANGED <<scDoc, scArg>>
    /\ UNCHANGED <<linterVars, fixerVars, moreVars, reportVars, traverseVars, configVars>>

\* text.split(/\r?\n/): the lines of the text from offset p on, where cur is
\* the part of the current line read so far
RECURSIVE SplitLines(_, _, _)
SplitLines(text, p, cur) ==
    IF p > Len(text) THEN <<cur>>
    ELSE IF text[p] = "n" THEN <<cur>> \o SplitLines(text, p + 1, <<>>)
    ELSE IF text[p] = "r" /\ p < Len(text) /\ text[p + 1] = "n"
         THEN <<cur>> \o SplitLines(text, p + 2, <<>>)
    ELSE SplitLines(text, p + 1, Append(cur, text[p]))

\* String.prototype.indexOf: the first offset at which value stands, or -1
indexOf(lineText, value) ==
    LET at == {j \in 0..(Len(lineText) - Len(value)) :
                   SubSeq(lineText, j + 1, j + Len(value)) = value}
    IN  IF at = {} THEN -1 ELSE CHOOSE j \in at : \A k \in at : j <= k

\* a raw token: { line, value }
RawToken(line, value) == [line |-> line, col |-> 0, index |-> 0, value |-> value]

RawValues == {<<"a">>, <<"x">>, <<"a", "a">>, <<"r", "a">>}

\* the return value null of getRange
NullRange == Answer(0, 0, 0, -1, -1)

\* Math.max(0, col)
Max0(col) == IF col < 0 THEN 0 ELSE col

\* getRange(token) for a raw token
getRangeRaw(text, token) ==
    LET lines == SplitLines(text, 1, <<>>)
        lineStartIndices == computeLineStartIndices(text)
        lineIndex == token.line - 1
    IN  IF lineIndex < 0 \/ lineIndex >= Len(lines) THEN NullRange
        ELSE LET lineStart == lineStartIndices[lineIndex + 1]
                 col == indexOf(lines[lineIndex + 1], token.value)
                 start == lineStart + Max0(col)
             IN  Answer(0, 0, 0, start, start + Len(token.value))

\* getRange(token) for a raw token
GetRangeRawCall ==
    /\ scPc = "constructed"
    /\ scDoc.token.type = "none"
    /\ \E line \in 0..(Len(computeLineStartIndices(scDoc.text)) + 1),
          value \in RawValues :
          /\ scArg' = RawToken(line, value)
          /\ scRes' = getRangeRaw(scDoc.text, RawToken(line, value))
    /\ scPc' = "rawrange"
    /\ UNCHANGED scDoc
    /\ UNCHANGED <<linterVars, fixerVars, moreVars, reportVars, traverseVars, configVars>>

NextSource ==
    \/ NewSourceCode
    \/ GetIndexFromLocCall
    \/ GetLocFromIndexCall
    \/ GetRangeCall
    \/ GetRangeRawCall

SpecSource == InitFix /\ [][NextSource]_vars

\* the lines of a text: what stands between its line feeds
RECURSIVE LinesOf(_, _)
LinesOf(text, line) ==
    IF text = <<>> THEN <<line>>
    ELSE IF Head(text) = "n" THEN <<line>> \o LinesOf(Tail(text), <<>>)
    ELSE LinesOf(Tail(text), Append(line, Head(text)))

\* (line, col) denotes a position inside the text
InsideText(text, line, col) ==
    /\ 1 <= line
    /\ line <= Len(LinesOf(text, <<>>))
    /\ col <= Len(LinesOf(text, <<>>)[line])

\* C18: location conversion round-trips: converting an offset of the text
\* (0 <= i <= text length) to a location and back gives the offset, and
\* converting a location inside the text (the line exists, the column is
\* within that line) to an offset and back gives the location.
C18_LocRoundTrip ==
    /\ (scPc = "loc" /\ scArg.index <= Len(scDoc.text))
           => getIndexFromLoc(scDoc.text, scRes.line, scRes.column) = scArg.index
    /\ (scPc = "index" /\ InsideText(scDoc.text, scArg.line, scArg.col))
           => getLocFromIndex(scDoc.text, scRes.index)
                  = [line |-> scArg.line, column |-> scArg.col]

\* a conversion of the location at the end of the second line of a text of
\* several lines
C18_Witness ==
    /\ scPc = "index"
    /\ scArg.line = 2
    /\ scArg.col >= 1
    /\ InsideText(scDoc.text, scArg.line, scArg.col)
    /\ Len(LinesOf(scDoc.text, <<>>)) >= 3
    /\ scRes.index >= 2

\* the offset at which a line of the text starts
RECURSIVE LineOffset(_, _)
LineOffset(lines, line) ==
    IF line <= 1 THEN 0
    ELSE LineOffset(lines, line - 1) + Len(lines[line - 1]) + 1

\* the location is past the end of the text
PastEnd(text, line, col) ==
    LET lines == LinesOf(text, <<>>)
    IN  \/ line > Len(lines)
        \/ 1 <= line /\ line <= Len(lines) /\ LineOffset(lines, line) + col > Len(text)

\* C19 as claimed: getIndexFromLoc never returns an offset greater than the
\* text length, and for a location past the end of the text (a line beyond
\* the last line, or a column that leads beyond the end of the text) it
\* returns the text length.
C19_IndexClamped ==
    scPc = "index" =>
        /\ scRes.index <= Len(scDoc.text)
        /\ PastEnd(scDoc.text, scArg.line, scArg.col) => scRes.index = Len(scDoc.text)

\* C20 as claimed: for a token whose loc spans from just after its opening
\* delimiter to just after its closing delimiter, mustache or tag, escaped or
\* self-closed, the range of getRange slices the text to the token's literal
\* text with its delimiters.
C20_RangeIsLiteral ==
    scPc = "range" =>
        /\ scRes.start <= scRes.end
        /\ Slice(scDoc.text, scRes.start, scRes.end) = scDoc.literal

----------------------------------------------------------------------------
(* Properties of the fixer on insertions *)

InOutput(fix) == \E j \in 1..Len(fxOut) : fxOut[j] = fix

\* C21 as claimed: when the input of getNonOverlappingFixes holds an insertion
\* at offset p (an empty range) and a replacement or removal whose range
\* starts at p, and no two fixes of the input overlap, both are kept,
\* whatever their order in the input.
C21_InsertionAdjacentKept ==
    (fxPc = "filtered" /\ PairwiseDisjoint(fxFixes)) =>
        \A j, k \in 1..Len(fxFixes) :
            ( /\ fxFixes[j].start = fxFixes[j].end
              /\ fxFixes[k].start = fxFixes[j].start
              /\ fxFixes[k].end > fxFixes[k].start )
            => InOutput(fxFixes[j]) /\ InOutput(fxFixes[k])

----------------------------------------------------------------------------
(* SpecRegistry: two Linter instances of one process and their registries *)

MaxOps == 4

\* the registry of an instance: the contents of the Map its _rules field holds
RegistryOf(inst) == rgHeap[rgRef[inst]]

\* a getRules that hands out the instance's own Map
getRulesSameMap(inst) == rgRef[inst]

\* getRules: new Map(this._rules), a Map object of its own
getRules(inst) == 3

\* getRule, and the lookup of verify's rule loop: this._rules.get(ruleId)
getRule(inst, ruleId) == RegistryOf(inst)[ruleId]

DefineRuleCall(inst, ruleId, rule) ==
    /\ rgOps < MaxOps
    /\ rgHeap' = [rgHeap EXCEPT ![rgRef[inst]][ruleId] = rule]
    /\ rgLast' = RegistryCall("defineRule", inst, ruleId, rule)
    /\ rgOps' = rgOps + 1
    /\ UNCHANGED <<rgRef, rgGot>>
    /\ UNCHANGED <<linterVars, fixerVars, reportVars, traverseVars, configVars,
                   sourceVars, formatVars, historyVars, spacingVars>>

GetRulesCall(inst) ==
    /\ rgOps < MaxOps
    /\ rgGot' = getRules(inst)
    /\ rgHeap' = [rgHeap EXCEPT ![getRules(inst)] = RegistryOf(inst)]
    /\ rgLast' = RegistryCall("getRules", inst, "", "none")
    /\ rgOps' = rgOps + 1
    /\ UNCHANGED rgRef
    /\ UNCHANGED <<linterVars, fixerVars, reportVars, traverseVars, configVars,
                   sourceVars, formatVars, historyVars, spacingVars>>

\* the caller sets or deletes an entry of the Map that getRules returned
MutateReturnedMap(ruleId, rule) ==
    /\ rgOps < MaxOps
    /\ rgGot # 0
    /\ rgHeap' = [rgHeap EXCEPT ![rgGot][ruleId] = rule]
    /\ rgLast' = RegistryCall("mutate", 0, ruleId, rule)
    /\ rgOps' = rgOps + 1
    /\ UNCHANGED <<rgRef, rgGot>>
    /\ UNCHANGED <<linterVars, fixerVars, reportVars, traverseVars, configVars,
                   sourceVars, formatVars, historyVars, spacingVars>>

GetRuleCall(inst, ruleId) ==
    /\ rgOps < MaxOps
    /\ rgLast' = RegistryCall("getRule", inst, ruleId, getRule(inst, ruleId))
    /\ rgOps' = rgOps + 1
    /\ UNCHANGED <<rgRef, rgHeap, rgGot>>
    /\ UNCHANGED <<linterVars, fixerVars, reportVars, traverseVars, configVars,
                   sourceVars, formatVars, historyVars, spacingVars>>

\* verify with a config that enables ruleId: the rule object its loop runs
VerifyRuleLookup(inst, ruleId) ==
    /\ rgOps < MaxOps
    /\ rgLast' = RegistryCall("verify", inst, ruleId, getRule(inst, ruleId))
    /\ rgOps' = rgOps + 1
    /\ UNCHANGED <<rgRef, rgHeap, rgGot>>
    /\ UNCHANGED <<linterVars, fixerVars, reportVars, traverseVars, configVars,
                   sourceVars, formatVars, historyVars, spacingVars>>

NextRegistry ==
    \/ \E inst \in Instances, ruleId \in RegistryIds, rule \in RuleObjects :
           DefineRuleCall(inst, ruleId, rule)
    \/ \E inst \in Instances : GetRulesCall(inst)
    \/ \E ruleId \in RegistryIds, rule \in RuleObjects \cup {"none"} :
           MutateReturnedMap(ruleId, rule)
    \/ \E inst \in Instances, ruleId \in RegistryIds : GetRuleCall(inst, ruleId)
    \/ \E inst \in Instances, ruleId \in RegistryIds : VerifyRuleLookup(inst, ruleId)

SpecRegistry == InitFix /\ [][NextRegistry]_vars

\* C22: a defineRule call on one instance sets that id of that instance's
\* registry to the given rule and leaves every other id and every other
\* instance's registry as it was; a change made to the map that getRules
\* returned, and getRules, getRule and verify themselves, leave every
\* registry as it was; getRule and the rule lookup of verify return what the
\* instance's own registry holds for the id.
C22_RegistriesIsolated ==
    [][ \A inst \in Instances :
          /\ (rgLast'.op = "defineRule" /\ rgLast'.inst = inst) =>
                 RegistryOf(inst)' = [RegistryOf(inst) EXCEPT ![rgLast'.id] = rgLast'.rule]
          /\ (rgLast'.op = "defineRule" /\ rgLast'.inst # inst) =>
                 RegistryOf(inst)' = RegistryOf(inst)
          /\ rgLast'.op \in {"mutate", "getRules", "getRule", "verify"} =>
                 RegistryOf(inst)' = RegistryOf(inst)
          /\ (rgLast'.op \in {"getRule", "verify"} /\ rgLast'.inst = inst) =>
                 rgLast'.rule = RegistryOf(inst)[rgLast'.id]
      ]_vars

\* a rule was replaced on instance 1 while instance 2 still holds the built-in
\* one, and the map returned by getRules was changed by its caller
C22_Witness ==
    /\ RegistryOf(1)["a2b"] = "rule1"
    /\ RegistryOf(2)["a2b"] = "builtin"
    /\ rgLast.op = "mutate"
    /\ rgGot # 0
    /\ rgHeap[rgGot] # RegistryOf(1)
    /\ rgHeap[rgGot] # RegistryOf(2)

----------------------------------------------------------------------------
(* SpecFormat: RuleContext._formatMessage *)

MaxTemplate == 7

TemplateChars == {"{", "}", " ", "k"}

Templates == UNION {[1..n -> TemplateChars] : n \in 0..MaxTemplate}

DataMaps == {NoData, [k |-> "v"]}

\* \s and \w over the characters of the templates
IsSpace(c) == c = " "

IsWord(c) == c = "k"

\* the end of the longest run of \s (of \w) that starts at p
RECURSIVE SkipSpace(_, _)
SkipSpace(t, p) == IF p <= Len(t) /\ IsSpace(t[p]) THEN SkipSpace(t, p + 1) ELSE p

RECURSIVE SkipWord(_, _)
SkipWord(t, p) == IF p <= Len(t) /\ IsWord(t[p]) THEN SkipWord(t, p + 1) ELSE p

\* a match of /\{\{\s*(\w+)\s*\}\}/ at p: where the key starts and ends and
\* where the match ends (0 when there is no match at p)
Placeholder(t, p) ==
    LET keyStart == SkipSpace(t, p + 2)
        keyEnd   == SkipWord(t, keyStart)
        close    == SkipSpace(t, keyEnd)
        found    == /\ p + 1 <= Len(t)
                    /\ t[p] = "{"
                    /\ t[p + 1] = "{"
                    /\ keyEnd > keyStart
                    /\ close + 1 <= Len(t)
                    /\ t[close] = "}"
                    /\ t[close + 1] = "}"
    IN  [key |-> IF found THEN SubSeq(t, keyStart, keyEnd - 1) ELSE <<>>,
         end |-> IF found THEN close + 2 ELSE 0]

\* data[key]
Lookup(data, key) == IF key = <<"k">> THEN data.k ELSE "undefined"

\* the replacer: data[key] ?? `{{${key}}}`
Replacement(data, key) ==
    IF Lookup(data, key) # "undefined"
    THEN <<Lookup(data, key)>>
    ELSE <<"{", "{">> \o key \o <<"}", "}">>

\* String.prototype.replace with a global regex: the matches from left to
\* right, without overlap, each replaced by the replacer's result
RECURSIVE ReplaceAll(_, _, _)
ReplaceAll(t, p, data) ==
    IF p > Len(t) THEN <<>>
    ELSE LET m == Placeholder(t, p)
         IN  IF m.end # 0
             THEN Replacement(data, m.key) \o ReplaceAll(t, m.end, data)
             ELSE <<t[p]>> \o ReplaceAll(t, p + 1, data)

formatMessage(template, hasData, data) ==
    IF ~hasData THEN template ELSE ReplaceAll(template, 1, data)

FormatMessageCall ==
    /\ ~fmArg.called
    /\ \E template \in Templates, hasData \in BOOLEAN, data \in DataMaps :
           /\ (~hasData => data = NoData)
           /\ fmArg' = FormatCall(template, hasData, data)
           /\ fmOut' = formatMessage(template, hasData, data)
    /\ UNCHANGED <<linterVars, fixerVars, reportVars, traverseVars, configVars,
                   sourceVars, registryVars, historyVars, spacingVars>>

NextFormat == FormatMessageCall

SpecFormat == InitFix /\ [][NextFormat]_vars

\* the message the templating contract asks for: a placeholder whose key is
\* set is replaced by the value, every other character of the template,
\* those of unresolved placeholders included, is kept as written
RECURSIVE Substituted(_, _, _)
Substituted(t, p, data) ==
    IF p > Len(t) THEN <<>>
    ELSE LET m == Placeholder(t, p)
         IN  IF m.end # 0
             THEN (IF Lookup(data, m.key) # "undefined"
                   THEN <<Lookup(data, m.key)>>
                   ELSE SubSeq(t, p, m.end - 1)) \o Substituted(t, m.end, data)
             ELSE <<t[p]>> \o Substituted(t, p + 1, data)

\* C23 as claimed: each placeholder whose key is in the data map is replaced
\* by its value, each placeholder whose key is not in the data map is left
\* exactly as written in the template, inner whitespace included, and with no
\* data map the template is returned unchanged.
C23_TemplateVerbatim ==
    fmArg.called =>
        /\ fmArg.hasData => fmOut = Substituted(fmArg.template, 1, fmArg.data)
        /\ ~fmArg.hasData => fmOut = fmArg.template

----------------------------------------------------------------------------
(* Properties of getRange on raw tokens *)

\* the value of the raw token stands on its stated line
OccursOnLine(text, token) ==
    LET lines == SplitLines(text, 1, <<>>)
    IN  /\ token.line >= 1
        /\ token.line <= Len(lines)
        /\ indexOf(lines[token.line], token.value) >= 0

\* C25 as claimed: for a raw token, either getRange returns a range that
\* slices the text to the token's value, or the value does not occur on the
\* token's stated line (or the line does not exist) and the result is null.
C25_RawRangeOrNull ==
    scPc = "rawrange" =>
        \/ /\ scRes # NullRange
           /\ Slice(scDoc.text, scRes.start, scRes.end) = scArg.value
        \/ /\ scRes = NullRange
           /\ ~OccursOnLine(scDoc.text, scArg)

----------------------------------------------------------------------------
(* Properties of the counts of a verifyAndFix result *)

WithFix(msgs) == SelectSeq(msgs, LAMBDA m : m.fix # NoFix)

\* C26 as claimed: in every verifyAndFix result, errorCount + warningCount
\* is the number of diagnostics, fixableErrorCount + fixableWarningCount is
\* the number of diagnostics that carry a fix, and each fixable count is at
\* most the count of its severity, for any configuration.
C26_CountsPartition ==
    pc = "done" =>
        /\ result.errorCount + result.warningCount = Len(result.messages)
        /\ result.fixableErrorCount + result.fixableWarningCount
               = Len(WithFix(result.messages))
        /\ result.fixableErrorCount <= result.errorCount
        /\ result.fixableWarningCount <= result.warningCount

----------------------------------------------------------------------------
(* Properties of the dispatch over the whole token tree *)

\* the callback named for a kind of token
CallbackFor(type) ==
    CASE type = "tag" -> "Tag"
      [] type = "e__tag" -> "EscapedTag"
      [] type = "mustache" -> "Mustache"
      [] type = "raw" -> "Raw"
      [] type = "comment" -> "Comment"

\* every token reachable through children lists, in document order
RECURSIVE PreOrder(_, _, _)
PreOrder(tokens, prefix, j) ==
    IF j > Len(tokens) THEN <<>>
    ELSE <<Append(prefix, j)>>
             \o PreOrder(tokens[j].children, Append(prefix, j), 1)
             \o PreOrder(tokens, prefix, j + 1)

\* the dispatches of a trace: its callbacks other than the exit callbacks
\* and Program
Dispatches ==
    SelectSeq(tvTrace, LAMBDA e : e.cb \notin {"Program", "Program:exit", "Tag:exit"})

\* C27 as claimed: one pass dispatches every token reachable through
\* children lists, under tags and under escaped tags alike, exactly once to
\* the callback named for its kind, in document order.
C27_WholeTreeDispatched ==
    (tvPc = "traversed" /\ tvVisitor = AllCallbacks) =>
        LET order == PreOrder(tvTokens, <<>>, 1)
        IN  /\ Len(Dispatches) = Len(order)
            /\ \A j \in 1..Len(order) :
                  /\ j <= Len(Dispatches)
                  /\ Dispatches[j].path = order[j]
                  /\ Dispatches[j].cb = CallbackFor(TokenAt(tvTokens, order[j]).type)

----------------------------------------------------------------------------
(* Properties of the progress of the fix loop *)

\* C28: a round of the fix loop whose verify returns a diagnostic carrying a
\* fix selects at least one fix, applies the selected fixes and goes on to
\* the next round, where the rejected ones are evaluated again by a new
\* verify; so the loop is left by its break only when no diagnostic carries
\* a fix, and otherwise only after 10 rounds.
C28_FixLoopProgress ==
    /\ [](pc = "after" =>
            /\ exitBy \in {"break", "cap"}
            /\ exitBy = "break" => FixesOf(messages) = <<>>
            /\ exitBy = "cap" => fixRounds = MAX_ITERATIONS)
    /\ [][ (pc = "loop" /\ verifyCalls' = verifyCalls + 1 /\ FixesOf(messages') # <<>>) =>
             LET fixes == getNonOverlappingFixes(FixesOf(messages'))
             IN  /\ Len(fixes) >= 1
                 /\ currentSource' = applyFixes(currentSource, fixes)
                 /\ fixRounds' = fixRounds + 1
                 /\ fixed'
                 /\ pc' = "loop"
       ]_vars

\* a round rejected a fix for overlap and applied another, and the loop goes on
C28_Witness ==
    /\ pc = "loop"
    /\ fixRounds >= 1
    /\ LoopCondition(i)
    /\ Len(getNonOverlappingFixes(FixesOf(messages))) < Len(FixesOf(messages))
    /\ Len(getNonOverlappingFixes(FixesOf(messages))) >= 1

----------------------------------------------------------------------------
(* Properties of the exported mergeFixes *)

\* C30 as claimed: mergeFixes returns null for zero fixes and the fix itself
\* for one fix; for two or more pairwise non-overlapping fixes it returns one
\* fix from the earliest start to the latest end, and applying it to the
\* source gives the text that applyFixes gives for the fixes: the text
\* between the fixes is kept.
C30_MergeFixesFaithful ==
    fxPc = "merged" =>
        /\ Len(fxFixes) = 0 => fxMerged = NoFix
        /\ Len(fxFixes) = 1 => fxMerged = fxFixes[1]
        /\ (Len(fxFixes) >= 2 /\ PairwiseDisjoint(fxFixes)) =>
              /\ \A j \in 1..Len(fxFixes) :
                    /\ fxMerged.start <= fxFixes[j].start
                    /\ fxMerged.end >= fxFixes[j].end
              /\ \E j, k \in 1..Len(fxFixes) :
                    /\ fxMerged.start = fxFixes[j].start
                    /\ fxMerged.end = fxFixes[k].end
              /\ applyFix(fxSource, fxMerged) = applyFixes(fxSource, fxFixes)

----------------------------------------------------------------------------
(* SpecHistory: a sequence of verify and verifyAndFix calls on one Linter *)

MaxCalls == 3

HistorySources == {<<"a">>, <<"a", "b">>}

HistoryCalls ==
    { <<>>, <<Entry("a2b", Bare("str", "off", 0))>>,
      <<Entry("b2a", Bare("str", "error", 0))>> }

\* a call and the diagnostics it returned
Call(kind, src, call, msgs) == [kind |-> kind, src |-> src, call |-> call, msgs |-> msgs]

\* a _mergeConfig that assigns the merged rules to this._config.rules
ConfigAfterMergeAssigned(base, call) == MergeRules(base, call)

\* this._config.rules after _mergeConfig(config): the merged config is a new
\* object literal built from spreads, this._config is only read
ConfigAfterMerge(base, call) == base

\* the for loop of verifyAndFix from round n on and its final verify, on an
\* instance whose base config is base: the diagnostics of the result and the
\* base config the call leaves
RECURSIVE FixLoop(_, _, _, _, _, _)
FixLoop(text, base, call, n, wasFixed, last) ==
    IF ~LoopCondition(n)
    THEN [msgs |-> IF wasFixed THEN Verify(text, base, call).msgs ELSE last,
          base |-> IF wasFixed THEN ConfigAfterMerge(base, call) ELSE base]
    ELSE LET v == Verify(text, base, call)
             after == ConfigAfterMerge(base, call)
             fixes == getNonOverlappingFixes(FixesOf(v.msgs))
         IN  IF Len(fixes) = 0
             THEN [msgs |-> IF wasFixed THEN Verify(text, after, call).msgs ELSE v.msgs,
                   base |-> IF wasFixed THEN ConfigAfterMerge(after, call) ELSE after]
             ELSE FixLoop(applyFixes(text, fixes), after, call, n + 1, TRUE, v.msgs)

\* verify(source, filename, config) on the instance
HistoryVerify ==
    /\ Len(hsSeen) < MaxCalls
    /\ \E src \in HistorySources, call \in HistoryCalls :
          /\ hsSeen' = Append(hsSeen,
                              Call("verify", src, call, Verify(src, baseRules, call).msgs))
          /\ baseRules' = ConfigAfterMerge(baseRules, call)
    /\ UNCHANGED <<pc, source, callRules, currentSource, messages, created, fixed, i,
                   verifyCalls, fixRounds, exitBy, result, second, prevExit,
                   prevRounds, hsBase>>
    /\ UNCHANGED <<fixerVars, reportVars, traverseVars, configVars, sourceVars,
                   registryVars, formatVars, spacingVars>>

\* verifyAndFix(source, filename, config) on the instance
HistoryVerifyAndFix ==
    /\ Len(hsSeen) < MaxCalls
    /\ \E src \in HistorySources, call \in HistoryCalls :
          LET run == FixLoop(src, baseRules, call, 0, FALSE, <<>>)
          IN  /\ hsSeen' = Append(hsSeen, Call("verifyAndFix", src, call, run.msgs))
              /\ baseRules' = run.base
    /\ UNCHANGED <<pc, source, callRules, currentSource, messages, created, fixed, i,
                   verifyCalls, fixRounds, exitBy, result, second, prevExit,
                   prevRounds, hsBase>>
    /\ UNCHANGED <<fixerVars, reportVars, traverseVars, configVars, sourceVars,
                   registryVars, formatVars, spacingVars>>

NextHistory ==
    \/ HistoryVerify
    \/ HistoryVerifyAndFix

SpecHistory == Init /\ [][NextHistory]_vars

----------------------------------------------------------------------------
(* SpecSpacing: verifyAndFix with the rule mustache-spacing ('always') *)

MaxItems == 2

\* the items of a template, one on each line: a line of raw text, a mustache
\* or safe mustache with its jsArg, a block tag @if(a) ... @end or an escaped
\* block tag @@if(a) ... @end that holds at most one raw line or mustache
RawItem == [kind |-> "raw", safe |-> FALSE, body |-> <<>>, escaped |-> FALSE, kids |-> <<>>]

MustacheItem(safe, body) ==
    [kind |-> "mustache", safe |-> safe, body |-> body, escaped |-> FALSE, kids |-> <<>>]

BlockItem(escaped, kids) ==
    [kind |-> "block", safe |-> FALSE, body |-> <<>>, escaped |-> escaped, kids |-> kids]

\* the jsArg of a mustache: x with or without a space on either side
Bodies == {<<"x">>, <<" ", "x">>, <<"x", " ">>, <<" ", "x", " ">>}

LeafItems == {RawItem} \cup {MustacheItem(safe, body) : safe \in BOOLEAN, body \in Bodies}

Items ==
    LeafItems \cup {BlockItem(escaped, kids) : escaped \in BOOLEAN,
                                               kids \in SeqsUpTo(LeafItems, 1)}

SpacingDocs == SeqsUpTo(Items, MaxItems) \ {<<>>}

MustacheType(item) == IF item.safe THEN "s__mustache" ELSE "mustache"

BlockType(item) == IF item.escaped THEN "e__tag" ELSE "tag"

\* the opening line of a block: @if(a) or @@if(a)
Header(item) == Opening(BlockType(item), <<"i", "f">>, FALSE) \o <<"a", ")">>

\* the closing line @end ("N" is the letter n, "n" being the line feed)
EndLine == <<"@", "e", "N", "d">>

RenderLeaf(item) ==
    IF item.kind = "raw" THEN <<"a">>
    ELSE Opening(MustacheType(item), <<>>, FALSE) \o item.body
             \o Closing(MustacheType(item))

RenderItem(item) ==
    IF item.kind = "block"
    THEN Header(item) \o <<"n">>
             \o (IF item.kids = <<>> THEN <<>> ELSE RenderLeaf(item.kids[1]) \o <<"n">>)
             \o EndLine
    ELSE RenderLeaf(item)

\* the text of a template: its items joined by line feeds
RECURSIVE Render(_)
Render(items) ==
    IF items = <<>> THEN <<>>
    ELSE IF Len(items) = 1 THEN RenderItem(items[1])
    ELSE RenderItem(items[1]) \o <<"n">> \o Render(Tail(items))

\* a token of the tokenizer with its loc, properties and children
SpacingToken(type, name, jsArg, start, end, children) ==
    [type |-> type, name |-> name, selfclosed |-> FALSE, jsArg |-> jsArg,
     start |-> start, end |-> end, children |-> children]

\* the token of a raw line or mustache that starts at an offset of the text
LeafToken(item, offset, text) ==
    IF item.kind = "raw"
    THEN SpacingToken("raw", <<>>, <<>>, Loc(0, 0), Loc(0, 0), <<>>)
    ELSE LET type == MustacheType(item)
             open == Opening(type, <<>>, FALSE)
         IN  SpacingToken(type, <<>>, item.body,
                          LexerLoc(text, offset + Len(open)),
                          LexerLoc(text, offset + Len(RenderLeaf(item))),
                          <<>>)

ItemToken(item, offset, text) ==
    IF item.kind = "block"
    THEN SpacingToken(BlockType(item), <<"i", "f">>, <<"a">>,
                      LexerLoc(text, offset + Len(Header(item)) - 2),
                      LexerLoc(text, offset + Len(Header(item))),
                      IF item.kids = <<>> THEN <<>>
                      ELSE <<LeafToken(item.kids[1], offset + Len(Header(item)) + 1, text)>>)
    ELSE LeafToken(item, offset, text)

RECURSIVE TokensOf(_, _, _)
TokensOf(items, offset, text) ==
    IF items = <<>> THEN <<>>
    ELSE <<ItemToken(items[1], offset, text)>>
             \o TokensOf(Tail(items), offset + Len(RenderItem(items[1])) + 1, text)

\* the tokenizer on a text of the template syntax: the tokens of the template
\* that is written this way (no tokens for a text that is not a template)
TokenizeTemplate(text) ==
    LET written == {d \in SpacingDocs : Render(d) = text}
    IN  IF written = {} THEN <<>>
        ELSE TokensOf(CHOOSE d \in written : TRUE, 0, text)

\* jsArg.trim() === ''
IsBlank(jsArg) == \A j \in 1..Len(jsArg) : jsArg[j] = " "

\* checkSpacing(token) with the option 'always': the diagnostics it reports
checkSpacing(token, text) ==
    LET jsArg == token.jsArg
        isSafe == token.type = "s__mustache"
        braces == IF isSafe THEN 3 ELSE 2
        hasLeadingSpace == Len(jsArg) > 0 /\ jsArg[1] = " "
        hasLeadingNewline == Len(jsArg) > 0 /\ jsArg[1] = "n"
        hasTrailingSpace == Len(jsArg) > 0 /\ jsArg[Len(jsArg)] = " "
        hasTrailingNewline == Len(jsArg) > 0 /\ jsArg[Len(jsArg)] = "n"
        range == getRange(text, token)
        message(at) == LintMessage("mustache-spacing", 1, token.start.line,
                                   token.start.col, Fix(at, at, <<" ">>), <<>>)
    IN  IF hasLeadingNewline \/ hasTrailingNewline \/ IsBlank(jsArg) THEN <<>>
        ELSE (IF ~hasLeadingSpace THEN <<message(range.start + braces)>> ELSE <<>>)
             \o (IF ~hasTrailingSpace THEN <<message(range.end - braces)>> ELSE <<>>)

\* the callbacks Mustache and SafeMustache of the rule, called in the order
\* of the traversal
RECURSIVE SpacingReports(_, _, _)
SpacingReports(events, tokens, text) ==
    IF events = <<>> THEN <<>>
    ELSE checkSpacing(TokenAt(tokens, events[1].path), text)
             \o SpacingReports(Tail(events), tokens, text)

\* verify with { rules: { 'mustache-spacing': ['warn', 'always'] } }
VerifySpacing(text) ==
    LET tokens == TokenizeTemplate(text)
    IN  SortMessages(SpacingReports(TraverseTree(tokens, {"Mustache", "SafeMustache"}),
                                    tokens, text))

\* verifyAndFix(source, filename, config) up to the loop
SpacingCall ==
    /\ msPc = "idle"
    /\ \E doc \in SpacingDocs :
          /\ msDoc' = doc
          /\ msText' = Render(doc)
    /\ msMessages' = <<>>
    /\ msRounds' = 0
    /\ msPc' = "loop"
    /\ UNCHANGED <<linterVars, fixerVars, reportVars, traverseVars, configVars,
                   sourceVars, registryVars, formatVars, historyVars>>

\* one iteration of the for loop
SpacingRound ==
    /\ msPc = "loop"
    /\ LoopCondition(msRounds)
    /\ LET msgs == VerifySpacing(msText)
           fixes == getNonOverlappingFixes(FixesOf(msgs))
       IN  /\ msMessages' = msgs
           /\ IF Len(fixes) = 0
              THEN /\ msPc' = "after"
                   /\ UNCHANGED <<msText, msRounds>>
              ELSE /\ msText' = applyFixes(msText, fixes)
                   /\ msRounds' = msRounds + 1
                   /\ UNCHANGED msPc
    /\ UNCHANGED msDoc
    /\ UNCHANGED <<linterVars, fixerVars, reportVars, traverseVars, configVars,
                   sourceVars, registryVars, formatVars, historyVars>>

\* the loop was left, by its break or because its condition is false: the
\* final verification and the result
SpacingFinish ==
    /\ msPc = "after" \/ (msPc = "loop" /\ ~LoopCondition(msRounds))
    /\ msMessages' = IF msRounds > 0 THEN VerifySpacing(msText) ELSE msMessages
    /\ msPc' = "done"
    /\ UNCHANGED <<msDoc, msText, msRounds>>
    /\ UNCHANGED <<linterVars, fixerVars, reportVars, traverseVars, configVars,
                   sourceVars, registryVars, formatVars, historyVars>>

NextSpacing ==
    \/ SpacingCall
    \/ SpacingRound
    \/ SpacingFinish

SpecSpacing == InitFix /\ [][NextSpacing]_vars

\* a jsArg with the missing spaces put in
Spaced(body) ==
    (IF body[1] = " " THEN <<>> ELSE <<" ">>) \o body
        \o (IF body[Len(body)] = " " THEN <<>> ELSE <<" ">>)

SpacedLeaf(item) ==
    IF item.kind = "mustache" THEN MustacheItem(item.safe, Spaced(item.body)) ELSE item

\* the template with the missing spaces put into every mustache
SpacedDoc(doc) ==
    [j \in 1..Len(doc) |->
        IF doc[j].kind = "block"
        THEN BlockItem(doc[j].escaped,
                       [k \in 1..Len(doc[j].kids) |-> SpacedLeaf(doc[j].kids[k])])
        ELSE SpacedLeaf(doc[j])]

\* C24 as claimed: with mustache-spacing set to 'always', verifyAndFix
\* returns a text in which every single-line mustache that lacked the space
\* after its opening braces or before its closing braces has it, and
\* nothing else is changed; a following verify reports no mustache-spacing
\* diagnostic; and this takes at most one fix round.
C24_SpacingConverges ==
    msPc = "done" =>
        /\ msText = Render(SpacedDoc(msDoc))
        /\ VerifySpacing(msText) = <<>>
        /\ msMessages = <<>>
        /\ msRounds = IF SpacedDoc(msDoc) = msDoc THEN 0 ELSE 1

====
